---- MODULE Spec2Model ----
(***************************************************************************)
(* The in-process TTL cache of product-catalog (internal/cache/cache.go),  *)
(* its lazily created singleton, and the cached request handlers of        *)
(* internal/handlers/product_handler.go that read through and invalidate   *)
(* it.  Time is the value returned by time.Now().UnixNano(), counted in    *)
(* abstract clock units.                                                   *)
(***************************************************************************)
EXTENDS Integers, Sequences, FiniteSets, TLC

\* ------------------------------------------------------------------ bounds
\* The clock runs from 0 to MaxTime.
MaxTime == 2
\* Each product is updated at most MaxUpdates times.
MaxUpdates == 1

\* ------------------------------------------------------- universe of inputs
\* Goroutines: request workers calling into the cache.
Procs == {"g1", "g2", "g3"}
\* The workers of the runs in which two requests race.
Workers == {"g1", "g2"}
\* Keys, prefixes, values and explicit TTLs passed to the cache facade.
Keys == {"product:1", "product:2", "list:a"}
Prefixes == {"product:", "list:", "", "product:10"}
Values == {"v1", "v2"}
TTLs == {0, 2}
\* The smaller universe of the runs with two racing workers.
RaceKeys == {"product:1", "list:a"}
RacePrefixes == {"product:", ""}
\* The defaultTTL handed to Init by the first caller.
DefaultTTLs == {1}

\* Product ids (hex ObjectIDs) and the query parameters of the listings.
Ids == {"1", "2"}
ListQueries ==
    {[page |-> pg, pageSize |-> 20, category |-> "", sortBy |-> "created_at",
      sortOrder |-> "desc", summary |-> FALSE] : pg \in {1, 2}}
\* The one listing requested in the runs with two racing requests.
RaceQueries == {q \in ListQueries : q.page = 1}

\* The defaultTTL arguments of the callers of Init.
InitTTLs == {1, 3}

Nil == "nil"
NoProc == "none"
\* var Instance *Cache before any Cache exists.
NilCache == 0
\* 5 * time.Minute, the clock unit being the minute.
FiveMinutes == 5
\* 2 * time.Minute
TwoMinutes == 2

VARIABLES
    now,        \* time.Now().UnixNano()
    items,      \* Cache.items: map[string]CacheItem
    ttl,        \* Cache.ttl (the default TTL)
    muW,        \* Cache.mu: the goroutine holding the exclusive lock, or NoProc
    muR,        \* Cache.mu: the goroutines holding the shared lock
    pc,         \* where each request goroutine is
    call,       \* the call each request goroutine is executing (its arguments and locals)
    ret,        \* what the last completed call of each goroutine returned
    sweeper,    \* the cleanupExpired goroutine: "none", "Idle" or "Scanning"
    lastWrite,  \* history: per key, the effect of the last completed facade write
    Instance,   \* var Instance *Cache (Nil, or the number of the Cache created)
    onceDone,   \* sync.Once: f has returned
    onceM,      \* sync.Once: the goroutine running f, or NoProc
    created,    \* history: how many Cache values were constructed
    started,    \* history: how many cleanupExpired goroutines were started
    db          \* the products collection (the system of record)

vars == <<now, items, ttl, muW, muR, pc, call, ret, sweeper, lastWrite,
          Instance, onceDone, onceM, created, started, db>>

cacheVars == <<items, ttl, muW, muR, sweeper, lastWrite>>
onceVars == <<Instance, onceDone, onceM, created, started>>

\* ------------------------------------------------------------ the entry map
CacheItem(v, e) == [Value |-> v, Expiration |-> e]
NoItem == [Value |-> Nil, Expiration |-> -1]
EmptyMap == [k \in {} |-> NoItem]

NoCall == [op |-> "none"]
NoRet == [op |-> "none"]

\* A torn write: the value is replaced, the expiration of a stored entry is kept.
SetItemTorn(m, key, value, expiration) ==
    [k \in DOMAIN m \cup {key} |->
        IF k = key
        THEN CacheItem(value, IF key \in DOMAIN m THEN m[key].Expiration ELSE expiration)
        ELSE m[k]]
\* c.items[key] = CacheItem{Value: value, Expiration: expiration}
SetItem(m, key, value, expiration) ==
    [k \in DOMAIN m \cup {key} |->
        IF k = key THEN CacheItem(value, expiration) ELSE m[k]]

\* A duration read with `ttl[0] > 0`: an explicit zero falls back to the default.
DurationZeroIsDefault(defaultTTL, ttlArgs) ==
    IF Len(ttlArgs) > 0 /\ ttlArgs[1] > 0 THEN ttlArgs[1] ELSE defaultTTL
\* duration := c.ttl; if len(ttl) > 0 { duration = ttl[0] }
Duration(defaultTTL, ttlArgs) ==
    IF Len(ttlArgs) > 0 THEN ttlArgs[1] ELSE defaultTTL

\* The comparison with >= in place of >.
IsExpiredAtOrAfter(t, item) == t >= item.Expiration
\* time.Now().UnixNano() > item.Expiration
IsExpired(t, item) == t > item.Expiration

\* A GetValue that leaves expiration to the sweeper.
GetValueNoExpiry(m, t, key) ==
    IF key \notin DOMAIN m
    THEN [value |-> Nil, found |-> FALSE]
    ELSE [value |-> m[key].Value, found |-> TRUE]
\* The body of GetValue: the (value, found) pair it returns.
GetValueResult(m, t, key) ==
    IF key \notin DOMAIN m
    THEN [value |-> Nil, found |-> FALSE]
    ELSE IF IsExpired(t, m[key])
         THEN [value |-> Nil, found |-> FALSE]
         ELSE [value |-> m[key].Value, found |-> TRUE]

\* A removal that leaves a tombstone under the key.
DeleteItemTombstone(m, key) ==
    [k \in DOMAIN m |-> IF k = key THEN NoItem ELSE m[k]]
\* delete(c.items, key)
DeleteItem(m, key) == [k \in DOMAIN m \ {key} |-> m[k]]

\* A comparison of the common part only, without the length test.
HasPrefixNoLen(key, prefix) ==
    LET n == IF Len(key) < Len(prefix) THEN Len(key) ELSE Len(prefix)
    IN SubSeq(key, 1, n) = SubSeq(prefix, 1, n)
\* A prefix test that takes the empty prefix to match no key.
HasPrefixNonEmpty(key, prefix) ==
    Len(prefix) > 0 /\ Len(key) >= Len(prefix) /\ SubSeq(key, 1, Len(prefix)) = prefix
\* len(key) >= len(prefix) && key[:len(prefix)] == prefix
HasPrefix(key, prefix) ==
    Len(key) >= Len(prefix) /\ SubSeq(key, 1, Len(prefix)) = prefix

\* for key := range c.items { if <has prefix> { delete(c.items, key) } }
DeleteByPrefixItems(m, prefix) ==
    [k \in {x \in DOMAIN m : ~HasPrefix(x, prefix)} |-> m[k]]

\* A scan that removes an entry one instant before it expires.
CleanupItemsEarly(m, t) ==
    [k \in {x \in DOMAIN m : ~(t + 1 > m[x].Expiration)} |-> m[k]]
\* for key, item := range c.items { if now > item.Expiration { delete(c.items, key) } }
CleanupItems(m, t) ==
    [k \in {x \in DOMAIN m : ~IsExpired(t, m[x])} |-> m[k]]

\* ------------------------------------------------------------ sync.RWMutex
\* An exclusive lock that does not wait for the readers.
CanLockIgnoringReaders == muW = NoProc
\* c.mu.Lock() returns when no goroutine holds the lock in either mode.
CanLock == muW = NoProc /\ muR = {}
\* c.mu.RLock() returns when no goroutine holds the exclusive lock.
CanRLock == muW = NoProc

\* ----------------------------------------------------------------- clock
\* A clock that can also be set back.
TickEitherWay ==
    /\ \/ now < MaxTime /\ now' = now + 1
       \/ now > 0 /\ now' = now - 1
    /\ UNCHANGED <<pc, call, ret, db>>
    /\ UNCHANGED cacheVars
    /\ UNCHANGED onceVars

\* Time passes between any two steps of any goroutine.
Tick ==
    /\ now < MaxTime
    /\ now' = now + 1
    /\ UNCHANGED <<pc, call, ret, db>>
    /\ UNCHANGED cacheVars
    /\ UNCHANGED onceVars

\* --------------------------------------------------------- the cache facade
\* Every facade call is two steps: the call with its c.mu.Lock()/RLock(), and
\* the body with the deferred Unlock()/RUnlock() and the return.
TTLArgs == {<<>>} \cup {<<d>> : d \in TTLs}

Enter(p, label, c) ==
    /\ pc' = [pc EXCEPT ![p] = label]
    /\ call' = [call EXCEPT ![p] = c]
    /\ ret' = [ret EXCEPT ![p] = NoRet]

Leave(p, r) ==
    /\ pc' = [pc EXCEPT ![p] = "idle"]
    /\ call' = [call EXCEPT ![p] = NoCall]
    /\ ret' = [ret EXCEPT ![p] = r]

\* func (c *Cache) Set(key, value, ttl...): c.mu.Lock()
SetLock(p, key, value, ttlArgs) ==
    /\ pc[p] = "idle"
    /\ CanLock
    /\ muW' = p
    /\ Enter(p, "Set", [op |-> "Set", key |-> key, value |-> value, ttl |-> ttlArgs])
    /\ UNCHANGED <<now, items, ttl, muR, sweeper, lastWrite, db>>
    /\ UNCHANGED onceVars

\* Set: the body and the deferred c.mu.Unlock()
SetBody(p) ==
    /\ pc[p] = "Set"
    /\ LET c == call[p]
           expiration == now + Duration(ttl, c.ttl)
       IN /\ items' = SetItem(items, c.key, c.value, expiration)
          /\ lastWrite' = [lastWrite EXCEPT ![c.key] = CacheItem(c.value, expiration)]
          /\ Leave(p, [op |-> "Set", key |-> c.key, value |-> c.value])
    /\ muW' = NoProc
    /\ UNCHANGED <<now, ttl, muR, sweeper, db>>
    /\ UNCHANGED onceVars

\* func (c *Cache) GetValue(key): c.mu.RLock()
GetValueRLock(p, key) ==
    /\ pc[p] = "idle"
    /\ CanRLock
    /\ muR' = muR \cup {p}
    /\ Enter(p, "GetValue", [op |-> "GetValue", key |-> key])
    /\ UNCHANGED <<now, items, ttl, muW, sweeper, lastWrite, db>>
    /\ UNCHANGED onceVars

\* A GetValue that evicts the expired entry it finds.
GetValueBodyEvicting(p) ==
    /\ pc[p] = "GetValue"
    /\ LET r == GetValueResult(items, now, call[p].key)
       IN Leave(p, [op |-> "GetValue", key |-> call[p].key,
                    value |-> r.value, found |-> r.found])
    /\ items' = CleanupItems(items, now)
    /\ muR' = muR \ {p}
    /\ UNCHANGED <<now, ttl, muW, sweeper, lastWrite, db>>
    /\ UNCHANGED onceVars

\* A GetValue without the defer: the early returns keep the read lock.
GetValueBodyNoDefer(p) ==
    /\ pc[p] = "GetValue"
    /\ LET r == GetValueResult(items, now, call[p].key)
       IN /\ Leave(p, [op |-> "GetValue", key |-> call[p].key,
                       value |-> r.value, found |-> r.found])
          /\ muR' = IF r.found THEN muR \ {p} ELSE muR
    /\ UNCHANGED <<now, items, ttl, muW, sweeper, lastWrite, db>>
    /\ UNCHANGED onceVars

\* A GetValue that extends the life of the entry it returns.
GetValueBodyRefreshing(p) ==
    /\ pc[p] = "GetValue"
    /\ LET r == GetValueResult(items, now, call[p].key)
       IN /\ Leave(p, [op |-> "GetValue", key |-> call[p].key,
                       value |-> r.value, found |-> r.found])
          /\ items' = IF r.found THEN SetItem(items, call[p].key, r.value, now + ttl + 1)
                      ELSE items
    /\ muR' = muR \ {p}
    /\ UNCHANGED <<now, ttl, muW, sweeper, lastWrite, db>>
    /\ UNCHANGED onceVars

\* GetValue: the lookup, the expiry check and the deferred c.mu.RUnlock()
GetValueBody(p) ==
    /\ pc[p] = "GetValue"
    /\ LET r == GetValueResult(items, now, call[p].key)
       IN Leave(p, [op |-> "GetValue", key |-> call[p].key,
                    value |-> r.value, found |-> r.found])
    /\ muR' = muR \ {p}
    /\ UNCHANGED <<now, items, ttl, muW, sweeper, lastWrite, db>>
    /\ UNCHANGED onceVars

\* func (c *Cache) Delete(key): c.mu.Lock()
DeleteLock(p, key) ==
    /\ pc[p] = "idle"
    /\ CanLock
    /\ muW' = p
    /\ Enter(p, "Delete", [op |-> "Delete", key |-> key])
    /\ UNCHANGED <<now, items, ttl, muR, sweeper, lastWrite, db>>
    /\ UNCHANGED onceVars

\* Delete: delete(c.items, key) and the deferred c.mu.Unlock()
DeleteBody(p) ==
    /\ pc[p] = "Delete"
    /\ items' = DeleteItem(items, call[p].key)
    /\ lastWrite' = [lastWrite EXCEPT ![call[p].key] = NoItem]
    /\ Leave(p, [op |-> "Delete", key |-> call[p].key])
    /\ muW' = NoProc
    /\ UNCHANGED <<now, ttl, muR, sweeper, db>>
    /\ UNCHANGED onceVars

\* func (c *Cache) DeleteByPrefix(prefix): c.mu.Lock()
DeleteByPrefixLock(p, prefix) ==
    /\ pc[p] = "idle"
    /\ CanLock
    /\ muW' = p
    /\ Enter(p, "DeleteByPrefix", [op |-> "DeleteByPrefix", prefix |-> prefix])
    /\ UNCHANGED <<now, items, ttl, muR, sweeper, lastWrite, db>>
    /\ UNCHANGED onceVars

\* DeleteByPrefix: the scan of the whole map and the deferred c.mu.Unlock()
DeleteByPrefixBody(p) ==
    /\ pc[p] = "DeleteByPrefix"
    /\ items' = DeleteByPrefixItems(items, call[p].prefix)
    /\ lastWrite' = [k \in DOMAIN lastWrite |->
                        IF HasPrefix(k, call[p].prefix) THEN NoItem ELSE lastWrite[k]]
    /\ Leave(p, [op |-> "DeleteByPrefix", prefix |-> call[p].prefix])
    /\ muW' = NoProc
    /\ UNCHANGED <<now, ttl, muR, sweeper, db>>
    /\ UNCHANGED onceVars

\* func (c *Cache) Clear(): c.mu.Lock()
ClearLock(p) ==
    /\ pc[p] = "idle"
    /\ CanLock
    /\ muW' = p
    /\ Enter(p, "Clear", [op |-> "Clear"])
    /\ UNCHANGED <<now, items, ttl, muR, sweeper, lastWrite, db>>
    /\ UNCHANGED onceVars

\* A Clear whose new map the running sweeper does not see: its scans go on
\* over the map it started with.
ClearBodyDetaching(p) ==
    /\ pc[p] = "Clear"
    /\ items' = EmptyMap
    /\ lastWrite' = [k \in DOMAIN lastWrite |-> NoItem]
    /\ Leave(p, [op |-> "Clear"])
    /\ muW' = NoProc
    /\ sweeper' = "detached"
    /\ UNCHANGED <<now, ttl, muR, db>>
    /\ UNCHANGED onceVars

\* A Clear that drops the expired entries only.
ClearBodyExpiredOnly(p) ==
    /\ pc[p] = "Clear"
    /\ items' = CleanupItems(items, now)
    /\ lastWrite' = [k \in DOMAIN lastWrite |-> NoItem]
    /\ Leave(p, [op |-> "Clear"])
    /\ muW' = NoProc
    /\ UNCHANGED <<now, ttl, muR, sweeper, db>>
    /\ UNCHANGED onceVars

\* Clear: c.items = make(map[string]CacheItem) and the deferred c.mu.Unlock()
ClearBody(p) ==
    /\ pc[p] = "Clear"
    /\ items' = EmptyMap
    /\ lastWrite' = [k \in DOMAIN lastWrite |-> NoItem]
    /\ Leave(p, [op |-> "Clear"])
    /\ muW' = NoProc
    /\ UNCHANGED <<now, ttl, muR, sweeper, db>>
    /\ UNCHANGED onceVars

\* func (c *Cache) Size(): c.mu.RLock()
SizeRLock(p) ==
    /\ pc[p] = "idle"
    /\ CanRLock
    /\ muR' = muR \cup {p}
    /\ Enter(p, "Size", [op |-> "Size"])
    /\ UNCHANGED <<now, items, ttl, muW, sweeper, lastWrite, db>>
    /\ UNCHANGED onceVars

\* A Size that counts the entries a read would still find.
SizeBodyLive(p) ==
    /\ pc[p] = "Size"
    /\ Leave(p, [op |-> "Size",
                 n |-> Cardinality({k \in DOMAIN items : ~IsExpired(now, items[k])})])
    /\ muR' = muR \ {p}
    /\ UNCHANGED <<now, items, ttl, muW, sweeper, lastWrite, db>>
    /\ UNCHANGED onceVars

\* Size: len(c.items) and the deferred c.mu.RUnlock()
SizeBody(p) ==
    /\ pc[p] = "Size"
    /\ Leave(p, [op |-> "Size", n |-> Cardinality(DOMAIN items)])
    /\ muR' = muR \ {p}
    /\ UNCHANGED <<now, items, ttl, muW, sweeper, lastWrite, db>>
    /\ UNCHANGED onceVars

\* ------------------------------------------------------------- the sweeper
\* cleanupExpired: a tick arrives on ticker.C and c.mu.Lock() is taken.
SweepLock ==
    /\ sweeper = "Idle"
    /\ CanLock
    /\ muW' = "sweeper"
    /\ sweeper' = "Scanning"
    /\ UNCHANGED <<now, items, ttl, muR, pc, call, ret, lastWrite, db>>
    /\ UNCHANGED onceVars

\* cleanupExpired leaving its loop after one scan.
SweepScanReturning ==
    /\ sweeper = "Scanning"
    /\ items' = CleanupItems(items, now)
    /\ muW' = NoProc
    /\ sweeper' = "stopped"
    /\ UNCHANGED <<now, ttl, muR, pc, call, ret, lastWrite, db>>
    /\ UNCHANGED onceVars

\* cleanupExpired: now := time.Now().UnixNano(), the scan, c.mu.Unlock()
SweepScan ==
    /\ sweeper = "Scanning"
    /\ items' = CleanupItems(items, now)
    /\ muW' = NoProc
    /\ sweeper' = "Idle"
    /\ UNCHANGED <<now, ttl, muR, pc, call, ret, lastWrite, db>>
    /\ UNCHANGED onceVars

\* ----------------------------------------------------- the cache in use
NoProducts == [i \in {} |-> 0]

\* The state once cache.Init(defaultTTL) has returned: an empty map, the
\* sweeper started and idle.
Init ==
    /\ now = 0
    /\ items = EmptyMap
    /\ ttl \in DefaultTTLs
    /\ muW = NoProc
    /\ muR = {}
    /\ pc = [p \in Procs |-> "idle"]
    /\ call = [p \in Procs |-> NoCall]
    /\ ret = [p \in Procs |-> NoRet]
    /\ sweeper = "Idle"
    /\ lastWrite = [k \in Keys |-> NoItem]
    /\ Instance = 1
    /\ onceDone = TRUE
    /\ onceM = NoProc
    /\ created = 1
    /\ started = 1
    /\ db = NoProducts

\* Two workers race on the facade, the sweeper and the clock run.
Next ==
    \/ Tick
    \/ SweepLock
    \/ SweepScan
    \/ \E p \in Workers, key \in RaceKeys, value \in Values, ttlArgs \in TTLArgs :
         SetLock(p, key, value, ttlArgs)
    \/ \E p \in Workers : SetBody(p)
    \/ \E p \in Workers, key \in RaceKeys : GetValueRLock(p, key)
    \/ \E p \in Workers : GetValueBody(p)
    \/ \E p \in Workers, key \in RaceKeys : DeleteLock(p, key)
    \/ \E p \in Workers : DeleteBody(p)
    \/ \E p \in Workers, prefix \in RacePrefixes : DeleteByPrefixLock(p, prefix)
    \/ \E p \in Workers : DeleteByPrefixBody(p)
    \/ \E p \in Workers : ClearLock(p)
    \/ \E p \in Workers : ClearBody(p)
    \/ \E p \in Workers : SizeRLock(p)
    \/ \E p \in Workers : SizeBody(p)

Spec == Init /\ [][Next]_vars

\* One worker drives the facade over the whole key universe, the sweeper and
\* the clock run.
SoloNext ==
    \/ Tick
    \/ SweepLock
    \/ SweepScan
    \/ \E key \in Keys, value \in Values, ttlArgs \in TTLArgs :
         SetLock("g1", key, value, ttlArgs)
    \/ SetBody("g1")
    \/ \E key \in Keys : GetValueRLock("g1", key)
    \/ GetValueBody("g1")
    \/ \E key \in Keys : DeleteLock("g1", key)
    \/ DeleteBody("g1")
    \/ \E prefix \in Prefixes : DeleteByPrefixLock("g1", prefix)
    \/ DeleteByPrefixBody("g1")
    \/ ClearLock("g1")
    \/ ClearBody("g1")
    \/ SizeRLock("g1")
    \/ SizeBody("g1")

SpecSolo == Init /\ [][SoloNext]_vars

\* ------------------------------------------------- properties of the facade
\* The steps on which a call returns.
GetValueReturns(p) == pc[p] = "GetValue" /\ pc'[p] = "idle"
SetReturns(p) == pc[p] = "Set" /\ pc'[p] = "idle"
DeleteByPrefixReturns(p) == pc[p] = "DeleteByPrefix" /\ pc'[p] = "idle"
SweepReturns == sweeper = "Scanning" /\ sweeper' = "Idle"

Miss == [value |-> Nil, found |-> FALSE]
Returned(p) == [value |-> ret'[p].value, found |-> ret'[p].found]

\* C1, as stated: GetValue returns found = TRUE only for a stored key whose
\* Expiration is strictly greater than the time it reads (an entry with
\* Expiration <= now is never returned), and a missing key yields (nil, false).
C1_FoundOnlyIfExpirationAfterNow ==
    [][\A p \in Procs : GetValueReturns(p) =>
          LET key == call[p].key
          IN /\ ret'[p].found =>
                  /\ key \in DOMAIN items
                  /\ items[key].Expiration > now
                  /\ ret'[p].value = items[key].Value
             /\ key \notin DOMAIN items => Returned(p) = Miss]_vars

\* C1, amended: GetValue returns found = TRUE only for a stored key whose
\* Expiration is not before the time it reads (at now = Expiration the entry
\* is still returned); an entry with Expiration < now is never returned,
\* swept or not, and a missing key yields (nil, false).
C1_FoundOnlyIfExpirationNotBeforeNow ==
    [][\A p \in Procs : GetValueReturns(p) =>
          LET key == call[p].key
          IN /\ ret'[p].found =>
                  /\ key \in DOMAIN items
                  /\ items[key].Expiration >= now
                  /\ ret'[p].value = items[key].Value
             /\ (key \in DOMAIN items /\ items[key].Expiration < now) =>
                  Returned(p) = Miss
             /\ key \notin DOMAIN items => Returned(p) = Miss]_vars

\* A GetValue has returned an entry at the very instant of its expiration.
C1_Witness ==
    \E p \in Procs :
        /\ ret[p].op = "GetValue"
        /\ ret[p].found
        /\ ret[p].key \in DOMAIN items
        /\ items[ret[p].key].Expiration = now
        /\ items[ret[p].key].Value = ret[p].value

\* C2: a GetValue that reads a time strictly after the entry's Expiration
\* returns found = FALSE, whether the sweeper is idle, holds a pending scan or
\* has already removed the entry.
C2_ExpiredIsMiss ==
    [][\A p \in Procs : GetValueReturns(p) =>
          LET key == call[p].key
          IN (key \in DOMAIN items /\ now > items[key].Expiration) =>
                 (~ret'[p].found /\ ret'[p].value = Nil)]_vars

\* A GetValue has missed on an entry that is expired and still in the map.
C2_Witness ==
    \E p \in Procs :
        /\ ret[p].op = "GetValue"
        /\ ~ret[p].found
        /\ ret[p].key \in DOMAIN items
        /\ items[ret[p].key].Expiration < now

\* The goroutines inside a critical section of the map.
Mutators ==
    {p \in Procs : pc[p] \in {"Set", "Delete", "DeleteByPrefix", "Clear"}}
        \cup (IF sweeper = "Scanning" THEN {"sweeper"} ELSE {})
Readers == {p \in Procs : pc[p] \in {"GetValue", "Size"}}

\* C3: every goroutine mutating the map holds the exclusive lock and every
\* reader holds the shared lock; either at most one mutator is inside and no
\* reader is, or only readers are.
C3_MutualExclusion ==
    /\ Mutators = (IF muW = NoProc THEN {} ELSE {muW})
    /\ Readers = muR
    /\ Cardinality(Mutators) <= 1
    /\ (Mutators # {} => Readers = {})

\* Two readers are inside at once.
C3_Witness == Cardinality(Readers) = 2 /\ Mutators = {}

\* C5: a Set on a key that is already stored replaces the value and the
\* expiration together: from then on a read at time t finds the new value
\* exactly while t is not past the second call's expiration, and never the
\* old value, whatever the first expiration was.
C5_Overwrite ==
    [][\A p \in Procs : (SetReturns(p) /\ call[p].key \in DOMAIN items) =>
          LET c == call[p]
              expiration == now + Duration(ttl, c.ttl)
          IN /\ items'[c.key] = CacheItem(c.value, expiration)
             /\ \A t \in 0..(MaxTime + 2) :
                    GetValueResult(items', t, c.key) =
                        IF t <= expiration
                        THEN [value |-> c.value, found |-> TRUE]
                        ELSE Miss]_vars

\* Both workers have Set the same key, "v1" first and "v2" with the shorter
\* lifetime last, and a read now finds "v2".
C5_Witness ==
    \E p, q \in Procs :
        /\ ret[p].op = "Set" /\ ret[p].value = "v1"
        /\ ret[q].op = "Set" /\ ret[q].value = "v2"
        /\ ret[p].key = ret[q].key
        /\ ret[q].key \in DOMAIN items
        /\ items[ret[q].key] = CacheItem("v2", now)
        /\ GetValueResult(items, now, ret[q].key) = [value |-> "v2", found |-> TRUE]

\* The first Len(prefix) characters of key are those of prefix.
StartsWith(key, prefix) ==
    /\ Len(key) >= Len(prefix)
    /\ \A i \in 1..Len(prefix) : SubSeq(key, i, i) = SubSeq(prefix, i, i)

\* C6: DeleteByPrefix(prefix) removes exactly the stored keys that start with
\* prefix (a key shorter than prefix never does) and leaves every other entry
\* with its value and expiration; with no match the map is unchanged.
C6_PrefixInvalidation ==
    [][\A p \in Procs : DeleteByPrefixReturns(p) =>
          LET prefix == call[p].prefix
          IN /\ DOMAIN items' = {k \in DOMAIN items : ~StartsWith(k, prefix)}
             /\ \A k \in DOMAIN items' : items'[k] = items[k]
             /\ ((\A k \in DOMAIN items : ~StartsWith(k, prefix)) => items' = items)]_vars

\* DeleteByPrefix("product:") has returned; "list:a", written before it, is
\* the only key left and is still retrievable.
C6_Witness ==
    /\ ret["g1"] = [op |-> "DeleteByPrefix", prefix |-> "product:"]
    /\ lastWrite["list:a"] # NoItem
    /\ DOMAIN items = {"list:a"}
    /\ GetValueResult(items, now, "list:a").found

\* C7: the writes are linearized: what the map holds for a key is the whole
\* effect (value and expiration together) of the last write that completed on
\* it, and a GetValue returns that write's value while its expiration has not
\* passed, and a miss after a write that removed the key.
C7_WritesLinearized ==
    /\ [](\A k \in DOMAIN items : items[k] = lastWrite[k])
    /\ [][\A p \in Procs : GetValueReturns(p) =>
            LET w == lastWrite[call[p].key]
            IN /\ ret'[p].found =>
                    /\ w # NoItem
                    /\ ret'[p].value = w.Value
                    /\ now <= w.Expiration
               /\ w = NoItem => Returned(p) = Miss]_vars

\* One worker's Set of "v1" completed, then the other's Set of "v2" on the
\* same key, and a GetValue after both returned "v2".
C7_Witness ==
    \E p, q \in Procs :
        /\ ret[p].op = "Set" /\ ret[p].value = "v1"
        /\ ret[q].op = "GetValue" /\ ret[q].key = ret[p].key
        /\ ret[q].found /\ ret[q].value = "v2"
        /\ lastWrite[ret[p].key].Value = "v2"

\* C10, as stated: a sweep holds the exclusive lock and, when its critical
\* section ends, no entry with Expiration <= the time it read is left.
C10_SweepRemovesExpiredAtNow ==
    [][SweepReturns =>
          /\ muW = "sweeper" /\ muR = {} /\ muW' = NoProc
          /\ \A k \in DOMAIN items' : items'[k].Expiration > now]_vars

\* C10, amended: a sweep holds the exclusive lock, scans every entry and
\* removes those with Expiration < the time it read; an entry with
\* Expiration = now stays, and no entry with Expiration < now is left when
\* its critical section ends.
C10_SweepRemovesExpiredBeforeNow ==
    [][SweepReturns =>
          /\ muW = "sweeper" /\ muR = {} /\ muW' = NoProc
          /\ DOMAIN items' = {k \in DOMAIN items : items[k].Expiration >= now}
          /\ \A k \in DOMAIN items' : items'[k] = items[k]]_vars

\* The sweeper has removed one expired entry and kept one that expires now.
C10_Witness ==
    /\ sweeper = "Idle"
    /\ \E k \in Keys :
          k \notin DOMAIN items /\ lastWrite[k] # NoItem /\ lastWrite[k].Expiration < now
    /\ \E k \in DOMAIN items : items[k].Expiration = now

\* The steps on which the remaining calls return.
DeleteReturns(p) == pc[p] = "Delete" /\ pc'[p] = "idle"
ClearReturns(p) == pc[p] = "Clear" /\ pc'[p] = "idle"
SizeReturns(p) == pc[p] = "Size" /\ pc'[p] = "idle"

\* The keys a GetValue at time t finds.
Retrievable(m, t) == {k \in DOMAIN m : GetValueResult(m, t, k).found}

\* C16: Set(key, value, ttl?) stores value under key with Expiration =
\* now + ttl when a ttl is passed, a ttl of 0 included, and now + the default
\* TTL when none is; it replaces whatever key held, leaves every other entry
\* alone, reports no error and releases the lock.
C16_SetStores ==
    [][\A p \in Procs : SetReturns(p) =>
          LET c == call[p]
              expiresAt == IF c.ttl = <<>> THEN now + ttl ELSE now + c.ttl[1]
          IN /\ DOMAIN items' = DOMAIN items \cup {c.key}
             /\ items'[c.key] = CacheItem(c.value, expiresAt)
             /\ \A k \in DOMAIN items \ {c.key} : items'[k] = items[k]
             /\ ret'[p] = [op |-> "Set", key |-> c.key, value |-> c.value]
             /\ muW = p /\ muW' = NoProc]_vars

\* At time 0 the three keys were Set with a ttl of 0, with no ttl (the
\* default of 1) and with a ttl of 2.
C16_Witness ==
    /\ now = 0
    /\ ttl = 1
    /\ ret["g1"].op = "Set"
    /\ DOMAIN items = Keys
    /\ items["product:1"].Expiration = 0
    /\ items["product:2"].Expiration = 1
    /\ items["list:a"].Expiration = 2

\* C17: Delete(k) removes the entry of k and nothing else; on an absent key
\* the map is unchanged and no error is reported; a second Delete(k) changes
\* nothing more; and from the Delete until the next Set of k the key is not
\* in the map, so that a GetValue(k) at any time misses.
C17_DeleteIdempotent ==
    /\ [][\A p \in Procs : DeleteReturns(p) =>
            LET k == call[p].key
            IN /\ DOMAIN items' = DOMAIN items \ {k}
               /\ \A j \in DOMAIN items' : items'[j] = items[j]
               /\ (k \notin DOMAIN items => items' = items)
               /\ DeleteItem(items', k) = items'
               /\ \A t \in 0..MaxTime : GetValueResult(items', t, k) = Miss
               /\ ret'[p] = [op |-> "Delete", key |-> k]]_vars
    /\ [](\A k \in Keys : lastWrite[k] = NoItem =>
              /\ k \notin DOMAIN items
              /\ GetValueResult(items, now, k) = Miss)

\* A Delete of "product:1" has returned: the key is absent and the two other
\* entries, written earlier, are as they were written.
C17_Witness ==
    /\ ret["g1"] = [op |-> "Delete", key |-> "product:1"]
    /\ DOMAIN items = {"product:2", "list:a"}
    /\ \A k \in DOMAIN items : items[k] = lastWrite[k]
    /\ ~GetValueResult(items, now, "product:1").found

\* C18: Clear leaves an empty map: the number of entries is 0 and a GetValue
\* of any key at any time misses, whatever the map held; the instance and its
\* default TTL stay, and a Set on the cleared map stores its one entry as on
\* a new map.
C18_ClearEmpties ==
    /\ [][\A p \in Procs : ClearReturns(p) =>
            /\ items' = EmptyMap
            /\ Cardinality(DOMAIN items') = 0
            /\ \A k \in Keys : \A t \in 0..MaxTime : GetValueResult(items', t, k) = Miss
            /\ ttl' = ttl
            /\ Instance' = Instance /\ Instance # NilCache
            /\ sweeper' = sweeper
            /\ muW = p /\ muW' = NoProc]_vars
    /\ [][\A p \in Procs : (SetReturns(p) /\ items = EmptyMap) =>
            /\ DOMAIN items' = {call[p].key}
            /\ items'[call[p].key] =
                   CacheItem(call[p].value, now + Duration(ttl, call[p].ttl))]_vars

\* One worker's Set completed and the other's Clear after it: the map is
\* empty, the key of the Set is gone and the default TTL is what it was.
C18_Witness ==
    /\ ret["g1"] = [op |-> "Clear"]
    /\ ret["g2"].op = "Set"
    /\ lastWrite[ret["g2"].key] = NoItem
    /\ items = EmptyMap
    /\ ttl \in DefaultTTLs

\* C19: Size returns the number of entries in the map, the expired ones that
\* no sweep or Delete has removed included; it is never smaller than the
\* number of keys a GetValue would find at that time, and can be greater.
C19_SizeCountsStored ==
    [][\A p \in Procs : SizeReturns(p) =>
          /\ ret'[p].n = Cardinality(DOMAIN items)
          /\ ret'[p].n >= Cardinality(Retrievable(items, now))
          /\ ret'[p].n = Cardinality(Retrievable(items, now))
                + Cardinality({k \in DOMAIN items : now > items[k].Expiration})
          /\ items' = items]_vars

\* Size has returned 2 while a GetValue would find a single key: the other
\* entry is expired and still in the map.
C19_Witness ==
    /\ ret["g1"] = [op |-> "Size", n |-> 2]
    /\ Cardinality(DOMAIN items) = 2
    /\ Cardinality(Retrievable(items, now)) = 1
    /\ \E k \in DOMAIN items : items[k].Expiration < now

\* The stored keys a DeleteByPrefix(prefix) matches.
Matching(m, prefix) == {k \in DOMAIN m : StartsWith(k, prefix)}

\* C20: the number of entries is 0 on a new or cleared map; a Set of a key
\* not in the map raises it by 1 and a Set of a stored key leaves it; a Delete
\* of a stored key lowers it by 1 (of an absent key, by 0); a DeleteByPrefix
\* lowers it by the number of stored keys that start with the prefix; and
\* Size returns that number.
C20_SizeTracksWrites ==
    [][\A p \in Procs :
          LET n == Cardinality(DOMAIN items)
              m == Cardinality(DOMAIN items')
          IN /\ SetReturns(p) =>
                  m = (IF call[p].key \in DOMAIN items THEN n ELSE n + 1)
             /\ DeleteReturns(p) =>
                  m = (IF call[p].key \in DOMAIN items THEN n - 1 ELSE n)
             /\ DeleteByPrefixReturns(p) =>
                  m = n - Cardinality(Matching(items, call[p].prefix))
             /\ ClearReturns(p) => m = 0
             /\ SizeReturns(p) =>
                  /\ ret'[p].n = n /\ m = n
                  /\ (items = EmptyMap => ret'[p].n = 0)]_vars

\* After the Sets of three distinct keys and a DeleteByPrefix matching the two
\* products, Size has returned 1.
C20_Witness ==
    /\ ret["g1"] = [op |-> "Size", n |-> 1]
    /\ DOMAIN items = {"list:a"}
    /\ Cardinality(Matching(items, "product:")) = 0
    /\ lastWrite["list:a"] = items["list:a"]
    /\ lastWrite["product:1"] = NoItem
    /\ lastWrite["product:2"] = NoItem

\* ------------------------------------------------------ concurrent readers
\* The expirations and the maps that Sets made at time 0 can have left.
ExpirationsAtZero == {Duration(d, a) : d \in DefaultTTLs, a \in TTLArgs}
StoredMaps ==
    UNION {[S -> {CacheItem(v, e) : v \in Values, e \in ExpirationsAtZero}] :
              S \in SUBSET RaceKeys}

\* A cache holding some entries, no call in flight, the sweeper between two
\* ticks.
InitStored ==
    /\ now = 0
    /\ items \in StoredMaps
    /\ ttl \in DefaultTTLs
    /\ muW = NoProc
    /\ muR = {}
    /\ pc = [p \in Procs |-> "idle"]
    /\ call = [p \in Procs |-> NoCall]
    /\ ret = [p \in Procs |-> NoRet]
    /\ sweeper = "Idle"
    /\ lastWrite = [k \in Keys |-> IF k \in DOMAIN items THEN items[k] ELSE NoItem]
    /\ Instance = 1
    /\ onceDone = TRUE
    /\ onceM = NoProc
    /\ created = 1
    /\ started = 1
    /\ db = NoProducts

\* Every goroutine has made its call.
AllStarted == \A q \in Procs : pc[q] = "GetValue" \/ ret[q] # NoRet

\* One GetValue per goroutine, all of them in flight at the same time: none
\* returns before the last has started.  Nothing writes and no tick reaches
\* the sweeper; the clock runs.
ReaderCalls(p) == \E key \in RaceKeys : ret[p] = NoRet /\ GetValueRLock(p, key)
ReaderReturns(p) == AllStarted /\ GetValueBody(p)

ReadersNext ==
    \/ Tick
    \/ \E p \in Procs : ReaderCalls(p)
    \/ \E p \in Procs : ReaderReturns(p)

\* The scheduler runs every goroutine that can run.
SpecReaders ==
    /\ InitStored
    /\ [][ReadersNext]_vars
    /\ \A p \in Procs : WF_vars(ReaderCalls(p)) /\ WF_vars(ReaderReturns(p))

\* The GetValue results returned so far for key.
ResultsFor(key) ==
    {[value |-> ret[p].value, found |-> ret[p].found] :
        p \in {q \in Procs : ret[q].op = "GetValue" /\ ret[q].key = key}}

\* C13, as stated: the concurrent GetValue calls on one key, with no write
\* and no sweep in flight, all return the same (value, found) pair, leave the
\* map as it is and all return.
C13_ReadersAgree ==
    /\ [](\A key \in RaceKeys : Cardinality(ResultsFor(key)) <= 1)
    /\ [][items' = items]_vars
    /\ <>(\A p \in Procs : pc[p] = "idle" /\ ret[p].op = "GetValue")

\* C13, amended: the concurrent GetValue calls on one key, with no write and
\* no sweep in flight, leave the map as it is and all return; those that find
\* the key return the one stored value, a call misses on a stored key only
\* once its expiration has passed, and as long as the expiration has not
\* passed all of them return the same (value, found) pair.
C13_ReadersAgreeUntilExpiry ==
    /\ [](\A key \in RaceKeys :
            /\ \A r \in ResultsFor(key) :
                 IF r.found
                 THEN key \in DOMAIN items /\ r.value = items[key].Value
                 ELSE r.value = Nil /\ (key \in DOMAIN items => now > items[key].Expiration)
            /\ (key \notin DOMAIN items \/ now <= items[key].Expiration) =>
                 Cardinality(ResultsFor(key)) <= 1)
    /\ [][items' = items /\ lastWrite' = lastWrite /\ muW' = NoProc]_vars
    /\ [](muW = NoProc /\ muR = {p \in Procs : pc[p] = "GetValue"})
    /\ <>(\A p \in Procs : pc[p] = "idle" /\ ret[p].op = "GetValue" /\ muR = {})

\* The three goroutines were inside GetValue("product:1") together and all
\* three have returned the stored value.
C13_Witness ==
    /\ "product:1" \in DOMAIN items
    /\ now <= items["product:1"].Expiration
    /\ \A p \in Procs :
          ret[p] = [op |-> "GetValue", key |-> "product:1",
                    value |-> items["product:1"].Value, found |-> TRUE]
    /\ muR = {}

\* ------------------------------------------- encoding/json as the cache uses it
\* A value json.Marshal refuses (a channel); so it does every value that
\* holds one, written with this text in front.
Chan == "chan"
\* A value of type []byte holding the text s; the typed values are plain strings.
Bytes(s) == "[]byte(" \o s \o ")"
\* bytes, ok := data.([]byte)
IsBytes(v) == Len(v) >= 8 /\ SubSeq(v, 1, 7) = "[]byte(" /\ SubSeq(v, Len(v), Len(v)) = ")"
Text(b) == SubSeq(b, 8, Len(b) - 1)
\* The structured values: a models.Product, of which the model keeps the
\* fields SKU and IsDeleted, written as a Go literal.
Skus == {"A"}
ProductValue(sku, isDeleted) ==
    "Product{SKU:" \o sku \o ",IsDeleted:" \o (IF isDeleted THEN "true" ELSE "false") \o "}"
ProductValues == {ProductValue(sku, d) : sku \in Skus, d \in BOOLEAN}
SKU(v) == CHOOSE sku \in Skus : \E d \in BOOLEAN : v = ProductValue(sku, d)
\* The JSON object of a Product: IsDeleted carries the tag json:"-" and is
\* left out.
ProductJSON(sku) == "{\"sku\":\"" \o sku \o "\"}"
\* The shape of the target a value is decoded into.
ShapeOf(v) == IF v \in ProductValues THEN "Product" ELSE "string"
Shapes == {"string", "Product"}

\* json.Marshal that writes a string without its quotes.
JSONMarshalUnquoted(v) ==
    IF HasPrefix(v, Chan)
    THEN [data |-> Nil, err |-> TRUE]
    ELSE IF v \in ProductValues
    THEN [data |-> Bytes(ProductJSON(SKU(v))), err |-> FALSE]
    ELSE [data |-> Bytes(v), err |-> FALSE]
\* json.Marshal(value): the JSON text of a string is the string in quotes,
\* that of a Product the object of its encoded fields.
JSONMarshal(v) ==
    IF HasPrefix(v, Chan)
    THEN [data |-> Nil, err |-> TRUE]
    ELSE IF v \in ProductValues
    THEN [data |-> Bytes(ProductJSON(SKU(v))), err |-> FALSE]
    ELSE [data |-> Bytes("\"" \o v \o "\""), err |-> FALSE]
\* json.Unmarshal(bytes, target) into a zero target of the given shape: a
\* JSON string decodes into a string only, an object into a Product only,
\* whose fields without a JSON name keep the value the target had.
JSONUnmarshal(b, shape) ==
    LET s == Text(b)
    IN IF shape = "string"
       THEN IF Len(s) >= 2 /\ SubSeq(s, 1, 1) = "\"" /\ SubSeq(s, Len(s), Len(s)) = "\""
            THEN [value |-> SubSeq(s, 2, Len(s) - 1), err |-> FALSE]
            ELSE [value |-> Nil, err |-> TRUE]
       ELSE IF \E sku \in Skus : s = ProductJSON(sku)
            THEN [value |-> ProductValue(CHOOSE sku \in Skus : s = ProductJSON(sku), FALSE),
                  err |-> FALSE]
            ELSE [value |-> Nil, err |-> TRUE]

\* ------------------------------------------- sync.RWMutex with its waiters
\* The calls of Lock and RLock that have not returned yet are states of their
\* own here.  Lock first takes the inner mutex rw.w, which one writer holds
\* from then until its Unlock; from that moment no new reader is admitted, and
\* Lock returns when the readers inside have left.
WriterAhead ==
    \/ muW # NoProc
    \/ sweeper = "Locking"
    \/ \E q \in Procs : pc[q] = "Lock.readers"

\* Readers that wait for the holder of the lock only.
ReadersMustWaitForHolder == muW # NoProc
\* RLock blocks while a writer holds the lock or has announced itself.
ReadersMustWait == WriterAhead

\* The label of the critical section of a call.
BodyLabel(c) ==
    IF c.op = "Marshal" THEN "Marshal.Set"
    ELSE IF c.op = "Unmarshal" THEN "Unmarshal.GetValue"
    ELSE c.op

\* c.mu.Lock() is called
LockCall(p, c) ==
    /\ pc[p] = "idle"
    /\ Enter(p, "Lock", c)
    /\ UNCHANGED <<now, db>>
    /\ UNCHANGED cacheVars
    /\ UNCHANGED onceVars

\* Lock: rw.w is taken, the readers are told
LockPending(p) ==
    /\ pc[p] = "Lock"
    /\ ~WriterAhead
    /\ pc' = [pc EXCEPT ![p] = "Lock.readers"]
    /\ UNCHANGED <<now, call, ret, db>>
    /\ UNCHANGED cacheVars
    /\ UNCHANGED onceVars

\* Lock: the last reader has left, Lock returns
LockAcquire(p) ==
    /\ pc[p] = "Lock.readers"
    /\ CanLock
    /\ muW' = p
    /\ pc' = [pc EXCEPT ![p] = BodyLabel(call[p])]
    /\ UNCHANGED <<now, call, ret, db, items, ttl, muR, sweeper, lastWrite>>
    /\ UNCHANGED onceVars

\* c.mu.RLock() is called
RLockCall(p, c) ==
    /\ pc[p] = "idle"
    /\ Enter(p, "RLock", c)
    /\ UNCHANGED <<now, db>>
    /\ UNCHANGED cacheVars
    /\ UNCHANGED onceVars

\* RLock returns
RLockAcquire(p) ==
    /\ pc[p] = "RLock"
    /\ ~ReadersMustWait
    /\ muR' = muR \cup {p}
    /\ pc' = [pc EXCEPT ![p] = BodyLabel(call[p])]
    /\ UNCHANGED <<now, call, ret, db, items, ttl, muW, sweeper, lastWrite>>
    /\ UNCHANGED onceVars

\* cleanupExpired: a tick arrives on ticker.C, c.mu.Lock() is called
SweepTick ==
    /\ sweeper = "Idle"
    /\ sweeper' = "Waiting"
    /\ UNCHANGED <<now, items, ttl, muW, muR, pc, call, ret, lastWrite, db>>
    /\ UNCHANGED onceVars

\* cleanupExpired, Lock: rw.w is taken, the readers are told
SweepPending ==
    /\ sweeper = "Waiting"
    /\ ~WriterAhead
    /\ sweeper' = "Locking"
    /\ UNCHANGED <<now, items, ttl, muW, muR, pc, call, ret, lastWrite, db>>
    /\ UNCHANGED onceVars

\* cleanupExpired, Lock: the last reader has left, Lock returns
SweepAcquire ==
    /\ sweeper = "Locking"
    /\ CanLock
    /\ muW' = "sweeper"
    /\ sweeper' = "Scanning"
    /\ UNCHANGED <<now, items, ttl, muR, pc, call, ret, lastWrite, db>>
    /\ UNCHANGED onceVars

\* func (c *Cache) Marshal(key, value, ttl...) is called
MarshalCall(p, key, value, ttlArgs) ==
    /\ pc[p] = "idle"
    /\ Enter(p, "Marshal", [op |-> "Marshal", key |-> key, value |-> value, ttl |-> ttlArgs])
    /\ UNCHANGED <<now, db>>
    /\ UNCHANGED cacheVars
    /\ UNCHANGED onceVars

\* A Marshal that drops the entry of the key when the encoding fails.
MarshalEncodeDropping(p) ==
    /\ pc[p] = "Marshal"
    /\ LET e == JSONMarshal(call[p].value)
       IN IF e.err
          THEN /\ Leave(p, [op |-> "Marshal", key |-> call[p].key,
                            value |-> call[p].value, err |-> TRUE])
               /\ items' = DeleteItem(items, call[p].key)
          ELSE /\ pc' = [pc EXCEPT ![p] = "Lock"]
               /\ call' = [call EXCEPT ![p] =
                             [op |-> "Marshal", key |-> call[p].key, value |-> call[p].value,
                              data |-> e.data, ttl |-> call[p].ttl]]
               /\ ret' = ret
               /\ items' = items
    /\ UNCHANGED <<now, db, ttl, muW, muR, sweeper, lastWrite>>
    /\ UNCHANGED onceVars

\* Marshal: json.Marshal(value); on an error return it, else call c.Set
MarshalEncode(p) ==
    /\ pc[p] = "Marshal"
    /\ LET e == JSONMarshal(call[p].value)
       IN IF e.err
          THEN Leave(p, [op |-> "Marshal", key |-> call[p].key,
                         value |-> call[p].value, err |-> TRUE])
          ELSE /\ pc' = [pc EXCEPT ![p] = "Lock"]
               /\ call' = [call EXCEPT ![p] =
                             [op |-> "Marshal", key |-> call[p].key, value |-> call[p].value,
                              data |-> e.data, ttl |-> call[p].ttl]]
               /\ ret' = ret
    /\ UNCHANGED <<now, db>>
    /\ UNCHANGED cacheVars
    /\ UNCHANGED onceVars

\* Marshal: the body of c.Set(key, data, ttl...), its Unlock, and return nil
MarshalSet(p) ==
    /\ pc[p] = "Marshal.Set"
    /\ LET c == call[p]
           expiration == now + Duration(ttl, c.ttl)
       IN /\ items' = SetItem(items, c.key, c.data, expiration)
          /\ lastWrite' = [lastWrite EXCEPT ![c.key] = CacheItem(c.data, expiration)]
          /\ Leave(p, [op |-> "Marshal", key |-> c.key, value |-> c.value, err |-> FALSE])
    /\ muW' = NoProc
    /\ UNCHANGED <<now, ttl, muR, sweeper, db>>
    /\ UNCHANGED onceVars

\* An Unmarshal that decodes before GetValue gives the shared lock back.
UnmarshalGetValueHolding(p) ==
    /\ pc[p] = "Unmarshal.GetValue"
    /\ LET r == GetValueResult(items, now, call[p].key)
       IN IF r.found /\ IsBytes(r.value)
          THEN /\ pc' = [pc EXCEPT ![p] = "Unmarshal.decode"]
               /\ call' = [call EXCEPT ![p] =
                             [op |-> "Unmarshal", key |-> call[p].key,
                              shape |-> call[p].shape, data |-> r.value]]
               /\ ret' = ret
               /\ muR' = muR
          ELSE /\ Leave(p, [op |-> "Unmarshal", key |-> call[p].key,
                            found |-> FALSE, err |-> FALSE, target |-> Nil])
               /\ muR' = muR \ {p}
    /\ UNCHANGED <<now, items, ttl, muW, sweeper, lastWrite, db>>
    /\ UNCHANGED onceVars

\* An Unmarshal that reports a value of another type as an error.
UnmarshalGetValueStrict(p) ==
    /\ pc[p] = "Unmarshal.GetValue"
    /\ LET r == GetValueResult(items, now, call[p].key)
       IN IF r.found /\ IsBytes(r.value)
          THEN /\ pc' = [pc EXCEPT ![p] = "Unmarshal.decode"]
               /\ call' = [call EXCEPT ![p] =
                             [op |-> "Unmarshal", key |-> call[p].key,
                              shape |-> call[p].shape, data |-> r.value]]
               /\ ret' = ret
          ELSE Leave(p, [op |-> "Unmarshal", key |-> call[p].key,
                         found |-> FALSE, err |-> r.found, target |-> Nil])
    /\ muR' = muR \ {p}
    /\ UNCHANGED <<now, items, ttl, muW, sweeper, lastWrite, db>>
    /\ UNCHANGED onceVars

\* Unmarshal: the body of c.GetValue(key), its RUnlock, and the two early
\* returns (not found; not a []byte)
UnmarshalGetValue(p) ==
    /\ pc[p] = "Unmarshal.GetValue"
    /\ LET r == GetValueResult(items, now, call[p].key)
       IN IF r.found /\ IsBytes(r.value)
          THEN /\ pc' = [pc EXCEPT ![p] = "Unmarshal.decode"]
               /\ call' = [call EXCEPT ![p] =
                             [op |-> "Unmarshal", key |-> call[p].key,
                              shape |-> call[p].shape, data |-> r.value]]
               /\ ret' = ret
          ELSE Leave(p, [op |-> "Unmarshal", key |-> call[p].key,
                         found |-> FALSE, err |-> FALSE, target |-> Nil])
    /\ muR' = muR \ {p}
    /\ UNCHANGED <<now, items, ttl, muW, sweeper, lastWrite, db>>
    /\ UNCHANGED onceVars

\* An Unmarshal that swallows the error of json.Unmarshal.
UnmarshalDecodeSilent(p) ==
    /\ pc[p] = "Unmarshal.decode"
    /\ LET d == JSONUnmarshal(call[p].data, call[p].shape)
       IN Leave(p, [op |-> "Unmarshal", key |-> call[p].key,
                    found |-> ~d.err, err |-> FALSE, target |-> d.value])
    /\ UNCHANGED <<now, db>>
    /\ UNCHANGED cacheVars
    /\ UNCHANGED onceVars

\* Unmarshal: json.Unmarshal(bytes, target) and the return
UnmarshalDecode(p) ==
    /\ pc[p] = "Unmarshal.decode"
    /\ LET d == JSONUnmarshal(call[p].data, call[p].shape)
       IN Leave(p, [op |-> "Unmarshal", key |-> call[p].key,
                    found |-> ~d.err, err |-> d.err, target |-> d.value])
    /\ UNCHANGED <<now, db>>
    /\ UNCHANGED cacheVars
    /\ UNCHANGED onceVars

\* The calls of the workers in the runs that follow every wait for the lock.
LiveKeys == {"product:1"}
LiveValues == {"v1"}
LiveTTLArgs == {<<>>, <<0>>}
LivePrefixes == {"product:"}
LiveWrites ==
    {[op |-> "Set", key |-> k, value |-> v, ttl |-> a] :
        k \in LiveKeys, v \in LiveValues, a \in LiveTTLArgs}
      \cup {[op |-> "Delete", key |-> k] : k \in LiveKeys}
      \cup {[op |-> "DeleteByPrefix", prefix |-> x] : x \in LivePrefixes}
      \cup {[op |-> "Clear"]}
LiveReads ==
    {[op |-> "GetValue", key |-> k] : k \in LiveKeys}
      \cup {[op |-> "Unmarshal", key |-> k, shape |-> "string"] : k \in LiveKeys}
      \cup {[op |-> "Size"]}

\* The step of worker p that ends a critical section, encodes or decodes.
Proceed(p) ==
    \/ SetBody(p)
    \/ GetValueBody(p)
    \/ DeleteBody(p)
    \/ DeleteByPrefixBody(p)
    \/ ClearBody(p)
    \/ SizeBody(p)
    \/ MarshalEncode(p)
    \/ MarshalSet(p)
    \/ UnmarshalGetValue(p)
    \/ UnmarshalDecode(p)

\* Two workers make every call of the facade and the sweeper ticks, at one
\* instant of the clock.
LiveNext ==
    \/ SweepTick
    \/ SweepPending
    \/ SweepAcquire
    \/ SweepScan
    \/ \E p \in Workers, c \in LiveWrites : LockCall(p, c)
    \/ \E p \in Workers, c \in LiveReads : RLockCall(p, c)
    \/ \E p \in Workers, k \in LiveKeys, v \in LiveValues \cup {Chan} :
         MarshalCall(p, k, v, <<>>)
    \/ \E p \in Workers : LockPending(p)
    \/ \E p \in Workers : LockAcquire(p)
    \/ \E p \in Workers : RLockAcquire(p)
    \/ \E p \in Workers : Proceed(p)

\* The scheduler runs every goroutine that can run and the ticker keeps
\* ticking; sync.Mutex hands rw.w to a waiter that keeps being passed over
\* (starvation mode), and Unlock admits the readers that waited for it.
\* Nothing obliges a worker to make a call, nor the clock to advance.
LiveFairness ==
    /\ WF_vars(SweepTick)
    /\ SF_vars(SweepPending)
    /\ WF_vars(SweepAcquire)
    /\ WF_vars(SweepScan)
    /\ \A p \in Workers :
          /\ SF_vars(LockPending(p))
          /\ WF_vars(LockAcquire(p))
          /\ SF_vars(RLockAcquire(p))
          /\ WF_vars(Proceed(p))

SpecLive == Init /\ [][LiveNext]_vars /\ LiveFairness

\* The calls of the workers while the clock runs: each worker stores, under
\* a key of its own, entries that expire at once or after the default TTL,
\* and reads them.
WorkerKey(p) == IF p = "g1" THEN "product:1" ELSE "list:a"
SweptWrites(p) ==
    {[op |-> "Set", key |-> WorkerKey(p), value |-> v, ttl |-> a] :
        v \in LiveValues, a \in LiveTTLArgs}
SweptReads(p) == {[op |-> "GetValue", key |-> WorkerKey(p)]}

\* Two workers store and read entries, the clock runs and the sweeper ticks.
SweepNext ==
    \/ Tick
    \/ SweepTick
    \/ SweepPending
    \/ SweepAcquire
    \/ SweepScan
    \/ \E p \in Workers : \E c \in SweptWrites(p) : LockCall(p, c)
    \/ \E p \in Workers : \E c \in SweptReads(p) : RLockCall(p, c)
    \/ \E p \in Workers : LockPending(p)
    \/ \E p \in Workers : LockAcquire(p)
    \/ \E p \in Workers : RLockAcquire(p)
    \/ \E p \in Workers : SetBody(p)
    \/ \E p \in Workers : GetValueBody(p)

SpecSweep == Init /\ [][SweepNext]_vars /\ LiveFairness

\* C11: an entry that has expired is in the end out of the map, or another
\* Set has replaced it with an entry that is not expired: the sweeper, whose
\* Lock no stream of readers and writers on any key holds off for ever,
\* removes it even if no worker ever calls the cache again.
C11_ExpiredEventuallyRemoved ==
    \A k \in RaceKeys :
        (k \in DOMAIN items /\ IsExpired(now, items[k]))
            ~> (k \notin DOMAIN items \/ ~IsExpired(now, items[k]))

\* The sweeper has removed the expired entry of one key while a worker was
\* in the middle of a call on the other key.
C11_Witness ==
    /\ sweeper = "Idle"
    /\ \E k \in RaceKeys :
          /\ k \notin DOMAIN items
          /\ lastWrite[k] # NoItem
          /\ lastWrite[k].Expiration < now
          /\ \E p \in Workers : pc[p] # "idle" /\ call[p].key # k

\* The goroutines that wait in Lock or RLock.
Waiting(p) == pc[p] \in {"Lock", "Lock.readers", "RLock"}
\* The critical sections.
Inside(p) ==
    pc[p] \in {"Set", "Delete", "DeleteByPrefix", "Clear", "Marshal.Set",
               "GetValue", "Size", "Unmarshal.GetValue"}

\* C12: every call that asks for the lock gets it, every call that was
\* started returns, and so does every scan of the sweeper; the lock is held
\* by goroutines inside a critical section only, so that a goroutine that has
\* returned holds nothing.
C12_NoCallBlocksForever ==
    /\ \A p \in Workers : Waiting(p) ~> Inside(p)
    /\ \A p \in Workers : (pc[p] # "idle") ~> (pc[p] = "idle")
    /\ (sweeper # "Idle") ~> (sweeper = "Scanning")
    /\ (sweeper = "Scanning") ~> (sweeper = "Idle")
    /\ [](/\ \A p \in Workers : (muW = p \/ p \in muR) <=> Inside(p)
          /\ muW = "sweeper" <=> sweeper = "Scanning"
          /\ muW \in Workers \cup {"sweeper", NoProc}
          /\ muR \subseteq Workers)

\* A Set holds the lock it had to wait for, with a reader and the sweeper
\* waiting behind it.
C12_Witness ==
    /\ pc["g1"] = "Set" /\ muW = "g1"
    /\ pc["g2"] = "RLock"
    /\ sweeper = "Waiting"

\* C21: a GetValue leaves the map as it is, keys, values and expirations, and
\* with it the number of entries, also when the entry it looks up has
\* expired; an entry leaves the map only in a sweep, a Delete, a
\* DeleteByPrefix or a Clear, and changes only in a Set.
C21_GetValueReadsOnly ==
    /\ [][\A p \in Procs : GetValueReturns(p) =>
            /\ items' = items
            /\ Cardinality(DOMAIN items') = Cardinality(DOMAIN items)
            /\ (call[p].key \in DOMAIN items /\ IsExpired(now, items[call[p].key])) =>
                   (~ret'[p].found /\ items'[call[p].key] = items[call[p].key])]_vars
    /\ [][\A k \in DOMAIN items :
            /\ k \notin DOMAIN items' =>
                   \/ SweepReturns /\ IsExpired(now, items[k])
                   \/ \E p \in Procs :
                        \/ DeleteReturns(p) /\ call[p].key = k
                        \/ DeleteByPrefixReturns(p) /\ StartsWith(k, call[p].prefix)
                        \/ ClearReturns(p)
            /\ (k \in DOMAIN items' /\ items'[k] # items[k]) =>
                   \E p \in Procs : SetReturns(p) /\ call[p].key = k]_vars

\* A GetValue of "product:1" has missed on the expired entry, which is still
\* in the map as it was written, beside a second entry.
C21_Witness ==
    /\ ret["g1"] = [op |-> "GetValue", key |-> "product:1", value |-> Nil, found |-> FALSE]
    /\ "product:1" \in DOMAIN items
    /\ items["product:1"] = lastWrite["product:1"]
    /\ items["product:1"].Expiration < now
    /\ Cardinality(DOMAIN items) = 2

\* ---------------------------------------------------------- the singleton
\* A plain nil check in place of sync.Once.
OnceMayEnterNilCheck == Instance = NilCache
\* sync.Once.Do runs f for the one caller that finds it neither done nor
\* running; the callers arriving while f runs wait for it to return.
OnceMayEnter == ~onceDone /\ onceM = NoProc

\* What the unsynchronized read of Instance in Get can observe: the pointer
\* as written, or still nil in a goroutine that has not yet synchronized with
\* the goroutine that wrote it.
ObservableInstance(p) ==
    IF ret[p] = NoRet THEN {NilCache, Instance} ELSE {Instance}

\* func Init(defaultTTL): the call, up to once.Do
InitCall(p, defaultTTL) ==
    /\ pc[p] = "idle"
    /\ Enter(p, "once.Do", [op |-> "Init", defaultTTL |-> defaultTTL])
    /\ UNCHANGED <<now, db>>
    /\ UNCHANGED cacheVars
    /\ UNCHANGED onceVars

\* A Get without the fallback: it returns Instance as it finds it.
GetCallNoFallback(p) ==
    /\ pc[p] = "idle"
    /\ \E seen \in ObservableInstance(p) :
          /\ pc' = pc
          /\ call' = call
          /\ ret' = [ret EXCEPT ![p] = [op |-> "Get", instance |-> seen]]
    /\ UNCHANGED <<now, db>>
    /\ UNCHANGED cacheVars
    /\ UNCHANGED onceVars

\* func Get(): if Instance == nil { return Init(5 * time.Minute) }; return Instance
GetCall(p) ==
    /\ pc[p] = "idle"
    /\ \E seen \in ObservableInstance(p) :
          IF seen = NilCache
          THEN Enter(p, "once.Do", [op |-> "Get", defaultTTL |-> FiveMinutes])
          ELSE /\ pc' = pc
               /\ call' = call
               /\ ret' = [ret EXCEPT ![p] = [op |-> "Get", instance |-> seen]]
    /\ UNCHANGED <<now, db>>
    /\ UNCHANGED cacheVars
    /\ UNCHANGED onceVars

\* once.Do(f): f has already returned, Do returns at once
OnceSkip(p) ==
    /\ pc[p] = "once.Do"
    /\ onceDone
    /\ pc' = [pc EXCEPT ![p] = "return"]
    /\ UNCHANGED <<now, call, ret, db>>
    /\ UNCHANGED cacheVars
    /\ UNCHANGED onceVars

\* once.Do(f): this caller is the one to run f
OnceEnter(p) ==
    /\ pc[p] = "once.Do"
    /\ OnceMayEnter
    /\ onceM' = p
    /\ pc' = [pc EXCEPT ![p] = "new"]
    /\ UNCHANGED <<now, call, ret, db, Instance, onceDone, created, started>>
    /\ UNCHANGED cacheVars

\* f: Instance = &Cache{items: make(map[string]CacheItem), ttl: defaultTTL}
OnceNew(p) ==
    /\ pc[p] = "new"
    /\ Instance' = created + 1
    /\ created' = created + 1
    /\ items' = EmptyMap
    /\ ttl' = call[p].defaultTTL
    /\ pc' = [pc EXCEPT ![p] = "go"]
    /\ UNCHANGED <<now, call, ret, db, muW, muR, sweeper, lastWrite,
                   onceDone, onceM, started>>

\* f: go Instance.cleanupExpired(); then f returns and once is done
OnceGo(p) ==
    /\ pc[p] = "go"
    /\ started' = started + 1
    /\ sweeper' = "Idle"
    /\ onceDone' = TRUE
    /\ onceM' = NoProc
    /\ pc' = [pc EXCEPT ![p] = "return"]
    /\ UNCHANGED <<now, call, ret, db, items, ttl, muW, muR, lastWrite,
                   Instance, created>>

\* Init: return Instance
InitReturn(p) ==
    /\ pc[p] = "return"
    /\ Leave(p, [op |-> call[p].op, instance |-> Instance])
    /\ UNCHANGED <<now, db>>
    /\ UNCHANGED cacheVars
    /\ UNCHANGED onceVars

\* The process before any call of Init or Get: no Cache, no sweeper.
InitNoCache ==
    /\ now = 0
    /\ items = EmptyMap
    /\ ttl = 0
    /\ muW = NoProc
    /\ muR = {}
    /\ pc = [p \in Procs |-> "idle"]
    /\ call = [p \in Procs |-> NoCall]
    /\ ret = [p \in Procs |-> NoRet]
    /\ sweeper = "none"
    /\ lastWrite = [k \in Keys |-> NoItem]
    /\ Instance = NilCache
    /\ onceDone = FALSE
    /\ onceM = NoProc
    /\ created = 0
    /\ started = 0
    /\ db = NoProducts

\* Any number of goroutines call Init and Get, the started sweeper runs.
OnceNext ==
    \/ SweepLock
    \/ SweepScan
    \/ \E p \in Procs, defaultTTL \in InitTTLs : InitCall(p, defaultTTL)
    \/ \E p \in Procs : GetCall(p)
    \/ \E p \in Procs : OnceSkip(p)
    \/ \E p \in Procs : OnceEnter(p)
    \/ \E p \in Procs : OnceNew(p)
    \/ \E p \in Procs : OnceGo(p)
    \/ \E p \in Procs : InitReturn(p)

SpecOnce == InitNoCache /\ [][OnceNext]_vars

\* C4: whatever the interleaving of the first calls of Init and Get, at most
\* one Cache is ever constructed and at most one sweeper started, exactly one
\* of each once f has returned, and every caller that has returned holds the
\* same non-nil instance.
C4_SingletonExactlyOnce ==
    /\ created <= 1
    /\ started <= 1
    /\ started <= created
    /\ (onceDone => created = 1 /\ started = 1)
    /\ (Instance # NilCache => created = 1)
    /\ \A p \in Procs :
          ret[p] # NoRet =>
              /\ ret[p].instance # NilCache
              /\ ret[p].instance = Instance
              /\ \A q \in Procs : ret[q] # NoRet => ret[q].instance = ret[p].instance
    /\ \A p \in Procs : (ret[p] # NoRet /\ ret[p].op = "Init") => onceDone

\* Three first calls raced: the one made through Get found Instance nil and
\* ran f with the 5 minute default; both Init calls returned the same instance.
C4_Witness ==
    /\ ret["g1"] = [op |-> "Init", instance |-> 1]
    /\ ret["g2"] = [op |-> "Get", instance |-> 1]
    /\ ret["g3"] = [op |-> "Init", instance |-> 1]
    /\ created = 1
    /\ started = 1
    /\ ttl = FiveMinutes

\* A goroutine uses the cache through the pointer a call of Init or Get
\* returned to it.
HasInstance(p) == pc[p] = "idle" /\ ret[p] # NoRet

\* The key, the value and the TTL arguments of the one user of the cache.
UserKeys == {"product:1"}
UserValues == {"v1"}

\* Three goroutines call Init with their own defaultTTL, over and over; the
\* third also uses the instance it was handed, while the sweeper and the
\* clock run.
FirstWinsNext ==
    \/ Tick
    \/ SweepLock
    \/ SweepScan
    \/ \E p \in Procs, defaultTTL \in InitTTLs : InitCall(p, defaultTTL)
    \/ \E p \in Procs : OnceSkip(p)
    \/ \E p \in Procs : OnceEnter(p)
    \/ \E p \in Procs : OnceNew(p)
    \/ \E p \in Procs : OnceGo(p)
    \/ \E p \in Procs : InitReturn(p)
    \/ \E key \in UserKeys, value \in UserValues, ttlArgs \in TTLArgs :
         HasInstance("g3") /\ SetLock("g3", key, value, ttlArgs)
    \/ SetBody("g3")
    \/ \E key \in UserKeys : HasInstance("g3") /\ GetValueRLock("g3", key)
    \/ GetValueBody("g3")

SpecFirstWins == InitNoCache /\ [][FirstWinsNext]_vars

\* The steps of Init: the call, once.Do and the return.
InitSteps(p) ==
    \/ pc[p] = "idle" /\ pc'[p] = "once.Do"
    \/ pc[p] = "once.Do" /\ pc'[p] = "return"
    \/ pc[p] = "return" /\ pc'[p] = "idle"

\* C14: the default TTL is written once, by the caller that constructs the
\* Cache; once the instance exists, a call of Init with any other TTL changes
\* neither the instance, nor its default TTL, nor its entries, starts no
\* sweeper and returns that instance; a Set without a ttl made afterwards
\* still expires after the first caller's TTL.
C14_FirstCallerWins ==
    /\ [][ttl' # ttl =>
            \E p \in Procs : pc[p] = "new" /\ created = 0 /\ ttl' = call[p].defaultTTL]_vars
    /\ [][onceDone =>
            /\ onceDone'
            /\ Instance' = Instance /\ ttl' = ttl
            /\ created' = created /\ started' = started
            /\ \A p \in Procs :
                 InitSteps(p) =>
                     /\ items' = items /\ sweeper' = sweeper
                     /\ (pc'[p] = "idle" =>
                            ret'[p] = [op |-> "Init", instance |-> Instance])]_vars
    /\ [][\A p \in Procs : (SetReturns(p) /\ call[p].ttl = <<>>) =>
            items'[call[p].key].Expiration = now + ttl]_vars

\* The goroutine that stored an entry under the first caller's TTL of 1 has
\* called Init(3) again and is about to be handed the same instance: its
\* entry and the TTL of 1 are as they were and one sweeper runs.
C14_Witness ==
    /\ pc["g3"] = "return"
    /\ call["g3"] = [op |-> "Init", defaultTTL |-> 3]
    /\ onceDone /\ Instance = 1 /\ created = 1 /\ started = 1
    /\ ttl = 1
    /\ now = 0
    /\ DOMAIN items = {"product:1"}
    /\ items["product:1"].Expiration = 1

\* C15: a Get returns a non-nil pointer to the one Cache of the process,
\* whether it found Instance set (then it changes nothing) or went through
\* Init; a Get that runs the initialisation, which happens only while no
\* Cache exists, gives it the default TTL of 5 minutes; and the default TTL is
\* the one of the initialisation that ran, Init's or Get's, for ever.
C15_GetReturnsTheInstance ==
    /\ [][\A p \in Procs : (ret'[p] # ret[p] /\ ret'[p].op = "Get") =>
            /\ ret'[p].instance # NilCache
            /\ ret'[p].instance = Instance
            /\ created = 1
            /\ UNCHANGED <<Instance, ttl, items, created, started, sweeper>>]_vars
    /\ [][\A p \in Procs : (pc[p] = "new" /\ pc'[p] = "go") =>
            /\ Instance = NilCache /\ created = 0
            /\ ttl' = call[p].defaultTTL
            /\ (call[p].op = "Get" => ttl' = FiveMinutes)]_vars
    /\ [][created = 1 => (ttl' = ttl /\ Instance' = Instance /\ created' = 1)]_vars

\* A Get has returned the instance that an Init(3) still running had just
\* assigned to Instance, and another Get, having seen Instance nil, waits in
\* once.Do with its 5 minutes.
C15_Witness ==
    /\ ret["g1"] = [op |-> "Get", instance |-> 1]
    /\ pc["g2"] = "go" /\ call["g2"] = [op |-> "Init", defaultTTL |-> 3]
    /\ pc["g3"] = "once.Do" /\ call["g3"] = [op |-> "Get", defaultTTL |-> FiveMinutes]
    /\ ~onceDone
    /\ ttl = 3

\* ------------------------------------------------------ the cached handlers
\* strconv / fmt: the decimal form of an integer
Digit(d) == SubSeq("0123456789", d + 1, d + 1)
RECURSIVE Itoa(_)
Itoa(n) ==
    IF n < 0 THEN "-" \o Itoa(-n)
    ELSE IF n < 10 THEN Digit(n)
    ELSE Itoa(n \div 10) \o Digit(n % 10)

FormatBool(b) == IF b THEN "true" ELSE "false"

\* The key with the prefix of the listings' family.
ProductKeyPlural(id) == "products:" \o id
\* fmt.Sprintf("product:%s", productID)
ProductKey(id) == "product:" \o id

\* The prefix handed to DeleteByPrefix after every write.
ListPrefix == "products:list:"

\* fmt.Sprintf("products:list:p%d_s%d_cat:%s_sort:%s_%s_sum:%v", ...)
ListKey(q) ==
    "products:list:p" \o Itoa(q.page) \o "_s" \o Itoa(q.pageSize)
        \o "_cat:" \o q.category \o "_sort:" \o q.sortBy \o "_" \o q.sortOrder
        \o "_sum:" \o FormatBool(q.summary)

\* A stored document: ver stands for the content of its updatable fields.
Document(ver, deleted) == [ver |-> ver, is_deleted |-> deleted]
\* The product a handler holds: the document as read.
Product(id, ver) == [id |-> id, ver |-> ver]

\* The filter {"_id": objID, "is_deleted": false} of FindByID, Update and SoftDelete
Visible(d, id) == id \in DOMAIN d /\ ~d[id].is_deleted

\* repository.FindAll on the filter {"is_deleted": false}: the page of the
\* matching products and their count (no product has a category; the page
\* size exceeds the number of products, so a page holds all or none of them).
FindAll(d, q) ==
    LET matching == {Product(id, d[id].ver) : id \in {i \in DOMAIN d : ~d[i].is_deleted}}
        total == Cardinality(matching)
        skip == (q.page - 1) * q.pageSize
    IN [data |-> IF q.page > 0 /\ q.pageSize > 0 /\ skip >= total THEN {} ELSE matching,
        total |-> total,
        page |-> q.page,
        page_size |-> q.pageSize,
        total_pages |-> IF q.pageSize = 0 THEN 1
                        ELSE (total \div q.pageSize)
                               + (IF total % q.pageSize # 0 THEN 1 ELSE 0)]

\* A facade call made by a handler runs its critical section in one step.
CacheSet(key, value, d) ==
    /\ CanLock
    /\ items' = SetItem(items, key, value, now + d)
    /\ lastWrite' = [lastWrite EXCEPT ![key] = CacheItem(value, now + d)]

\* An invalidation that deletes a key no reader stores.
InvalidatedKeyPlural(id) == ProductKeyPlural(id)
\* fmt.Sprintf("product:%s", productID), the key of h.cache.Delete
InvalidatedKey(id) == ProductKey(id)

\* h.cache.Delete(fmt.Sprintf("product:%s", productID))
InvalidateProduct(id) ==
    /\ CanLock
    /\ items' = DeleteItem(items, InvalidatedKey(id))
    /\ lastWrite' = [k \in DOMAIN lastWrite |->
                        IF k = InvalidatedKey(id) THEN NoItem ELSE lastWrite[k]]

\* h.cache.DeleteByPrefix("products:list:")
InvalidateLists ==
    /\ CanLock
    /\ items' = DeleteByPrefixItems(items, ListPrefix)
    /\ lastWrite' = [k \in DOMAIN lastWrite |->
                        IF HasPrefix(k, ListPrefix) THEN NoItem ELSE lastWrite[k]]

Respond(h, op, id, status, body) ==
    Leave(h, [op |-> op, id |-> id, status |-> status])

Goto(h, label, c) ==
    /\ pc' = [pc EXCEPT ![h] = label]
    /\ call' = [call EXCEPT ![h] = c]
    /\ ret' = ret

\* The outcomes of a repository call, and of binding a request body.
RepoOutcomes == {"ok", "error"}
WriteOutcomes == {"ok", "error", "bad request"}

\* GetProduct: the cache lookup; a hit is answered from the cache
GetProductLookup(h, id) ==
    /\ pc[h] = "idle"
    /\ CanRLock
    /\ LET r == GetValueResult(items, now, ProductKey(id))
       IN IF r.found
          THEN Respond(h, "GetProduct", id, 200, r.value)
          ELSE Enter(h, "GetProduct.FindByID", [op |-> "GetProduct", id |-> id])
    /\ UNCHANGED <<now, db>>
    /\ UNCHANGED cacheVars
    /\ UNCHANGED onceVars

\* GetProduct: h.repo.FindByID
GetProductFind(h, outcome) ==
    /\ pc[h] = "GetProduct.FindByID"
    /\ LET id == call[h].id
       IN IF outcome = "error"
          THEN Respond(h, "GetProduct", id, 500, Nil)
          ELSE IF ~Visible(db, id)
          THEN Respond(h, "GetProduct", id, 404, Nil)
          ELSE Goto(h, "GetProduct.Set",
                    [op |-> "GetProduct", id |-> id, product |-> Product(id, db[id].ver)])
    /\ UNCHANGED <<now, db>>
    /\ UNCHANGED cacheVars
    /\ UNCHANGED onceVars

\* GetProduct: h.cache.Set(cacheKey, product, 5*time.Minute) and the answer
GetProductStore(h) ==
    /\ pc[h] = "GetProduct.Set"
    /\ CacheSet(ProductKey(call[h].id), call[h].product, FiveMinutes)
    /\ Respond(h, "GetProduct", call[h].id, 200, call[h].product)
    /\ UNCHANGED <<now, db, ttl, muW, muR, sweeper>>
    /\ UNCHANGED onceVars

\* ListProducts: the cache lookup; a hit is answered from the cache
ListProductsLookup(h, q) ==
    /\ pc[h] = "idle"
    /\ CanRLock
    /\ LET r == GetValueResult(items, now, ListKey(q))
       IN IF r.found
          THEN Respond(h, "ListProducts", Itoa(q.page), 200, r.value)
          ELSE Enter(h, "ListProducts.FindAll", [op |-> "ListProducts", q |-> q])
    /\ UNCHANGED <<now, db>>
    /\ UNCHANGED cacheVars
    /\ UNCHANGED onceVars

\* ListProducts: h.repo.FindAll and the response built from it
ListProductsFind(h, outcome) ==
    /\ pc[h] = "ListProducts.FindAll"
    /\ LET q == call[h].q
       IN IF outcome = "error"
          THEN Respond(h, "ListProducts", Itoa(q.page), 500, Nil)
          ELSE Goto(h, "ListProducts.Set",
                    [op |-> "ListProducts", q |-> q, response |-> FindAll(db, q)])
    /\ UNCHANGED <<now, db>>
    /\ UNCHANGED cacheVars
    /\ UNCHANGED onceVars

\* ListProducts: h.cache.Set(cacheKey, response, 2*time.Minute) and the answer
ListProductsStore(h) ==
    /\ pc[h] = "ListProducts.Set"
    /\ CacheSet(ListKey(call[h].q), call[h].response, TwoMinutes)
    /\ Respond(h, "ListProducts", Itoa(call[h].q.page), 200, call[h].response)
    /\ UNCHANGED <<now, db, ttl, muW, muR, sweeper>>
    /\ UNCHANGED onceVars

\* CreateProduct: ShouldBindJSON and h.repo.Create (a fresh ObjectID)
CreateProductWrite(h, id, outcome) ==
    /\ pc[h] = "idle"
    /\ id \notin DOMAIN db
    /\ IF outcome = "bad request"
       THEN Respond(h, "CreateProduct", id, 400, Nil) /\ db' = db
       ELSE IF outcome = "error"
       THEN Respond(h, "CreateProduct", id, 500, Nil) /\ db' = db
       ELSE /\ db' = [i \in DOMAIN db \cup {id} |->
                        IF i = id THEN Document(0, FALSE) ELSE db[i]]
            /\ Enter(h, "DeleteByPrefix", [op |-> "CreateProduct", id |-> id])
    /\ UNCHANGED now
    /\ UNCHANGED cacheVars
    /\ UNCHANGED onceVars

\* An UpdateProduct that invalidates whether or not a product was updated.
UpdateProductWriteInvalidatingAlways(h, id, outcome) ==
    /\ pc[h] = "idle"
    /\ Visible(db, id) => db[id].ver < MaxUpdates
    /\ IF outcome = "bad request"
       THEN Respond(h, "UpdateProduct", id, 400, Nil) /\ db' = db
       ELSE IF outcome = "error"
       THEN Respond(h, "UpdateProduct", id, 500, Nil) /\ db' = db
       ELSE /\ db' = IF Visible(db, id)
                     THEN [db EXCEPT ![id] = Document(db[id].ver + 1, FALSE)]
                     ELSE db
            /\ Enter(h, "Delete", [op |-> "UpdateProduct", id |-> id])
    /\ UNCHANGED now
    /\ UNCHANGED cacheVars
    /\ UNCHANGED onceVars

\* UpdateProduct: ShouldBindJSON, the update map and h.repo.Update
UpdateProductWrite(h, id, outcome) ==
    /\ pc[h] = "idle"
    /\ Visible(db, id) => db[id].ver < MaxUpdates
    /\ IF outcome = "bad request"
       THEN Respond(h, "UpdateProduct", id, 400, Nil) /\ db' = db
       ELSE IF outcome = "error"
       THEN Respond(h, "UpdateProduct", id, 500, Nil) /\ db' = db
       ELSE IF ~Visible(db, id)
       THEN Respond(h, "UpdateProduct", id, 404, Nil) /\ db' = db
       ELSE /\ db' = [db EXCEPT ![id] = Document(db[id].ver + 1, FALSE)]
            /\ Enter(h, "Delete", [op |-> "UpdateProduct", id |-> id])
    /\ UNCHANGED now
    /\ UNCHANGED cacheVars
    /\ UNCHANGED onceVars

\* DeleteProduct: h.repo.SoftDelete
DeleteProductWrite(h, id, outcome) ==
    /\ pc[h] = "idle"
    /\ IF outcome = "error"
       THEN Respond(h, "DeleteProduct", id, 500, Nil) /\ db' = db
       ELSE IF ~Visible(db, id)
       THEN Respond(h, "DeleteProduct", id, 404, Nil) /\ db' = db
       ELSE /\ db' = [db EXCEPT ![id] = Document(db[id].ver, TRUE)]
            /\ Enter(h, "Delete", [op |-> "DeleteProduct", id |-> id])
    /\ UNCHANGED now
    /\ UNCHANGED cacheVars
    /\ UNCHANGED onceVars

\* UpdateProduct / DeleteProduct: h.cache.Delete("product:<id>")
InvalidateDelete(h) ==
    /\ pc[h] = "Delete"
    /\ InvalidateProduct(call[h].id)
    /\ Goto(h, "DeleteByPrefix", call[h])
    /\ UNCHANGED <<now, db, ttl, muW, muR, sweeper>>
    /\ UNCHANGED onceVars

\* Create / Update / DeleteProduct: h.cache.DeleteByPrefix("products:list:")
InvalidateDeleteByPrefix(h) ==
    /\ pc[h] = "DeleteByPrefix" /\ call[h].op # "DeleteByPrefix"
    /\ InvalidateLists
    /\ Goto(h, "respond", call[h])
    /\ UNCHANGED <<now, db, ttl, muW, muR, sweeper>>
    /\ UNCHANGED onceVars

\* Create / Update / DeleteProduct: c.JSON(http.StatusOK / StatusCreated, ...)
WriteRespond(h) ==
    /\ pc[h] = "respond"
    /\ Respond(h, call[h].op, call[h].id,
               IF call[h].op = "CreateProduct" THEN 201 ELSE 200, Nil)
    /\ UNCHANGED <<now, db>>
    /\ UNCHANGED cacheVars
    /\ UNCHANGED onceVars

\* Every key a handler or a facade caller of the model uses.
CacheKeys ==
    Keys \cup {ProductKey(id) : id \in Ids} \cup {ListKey(q) : q \in ListQueries}

\* The service once NewProductHandler has run cache.Get(): the cache made by
\* Get with its 5 minute default, product "1" stored, product "2" not yet.
InitService ==
    /\ now = 0
    /\ items = EmptyMap
    /\ ttl = FiveMinutes
    /\ muW = NoProc
    /\ muR = {}
    /\ pc = [p \in Procs |-> "idle"]
    /\ call = [p \in Procs |-> NoCall]
    /\ ret = [p \in Procs |-> NoRet]
    /\ sweeper = "Idle"
    /\ lastWrite = [k \in CacheKeys |-> NoItem]
    /\ Instance = 1
    /\ onceDone = TRUE
    /\ onceM = NoProc
    /\ created = 1
    /\ started = 1
    /\ db = [i \in {"1"} |-> Document(0, FALSE)]

\* No request is being handled.
Quiet == \A h \in Procs : pc[h] = "idle"

\* Two requests are handled concurrently.  The runs are shorter than the
\* shortest TTL: the clock stands still and a sweep would remove nothing.
HandlersNext ==
    \/ \E h \in Workers, id \in Ids : GetProductLookup(h, id)
    \/ \E h \in Workers, outcome \in RepoOutcomes : GetProductFind(h, outcome)
    \/ \E h \in Workers : GetProductStore(h)
    \/ \E h \in Workers, q \in RaceQueries : ListProductsLookup(h, q)
    \/ \E h \in Workers, outcome \in RepoOutcomes : ListProductsFind(h, outcome)
    \/ \E h \in Workers : ListProductsStore(h)
    \/ \E h \in Workers, id \in Ids, outcome \in WriteOutcomes : CreateProductWrite(h, id, outcome)
    \/ \E h \in Workers, id \in Ids, outcome \in WriteOutcomes : UpdateProductWrite(h, id, outcome)
    \/ \E h \in Workers, id \in Ids, outcome \in RepoOutcomes : DeleteProductWrite(h, id, outcome)
    \/ \E h \in Workers : InvalidateDelete(h)
    \/ \E h \in Workers : InvalidateDeleteByPrefix(h)
    \/ \E h \in Workers : WriteRespond(h)

SpecHandlers == InitService /\ [][HandlersNext]_vars

\* The same service with no concurrent request: a request is taken only when
\* no other is being handled.
SerialNext ==
    \/ \E h \in Workers, id \in Ids : Quiet /\ GetProductLookup(h, id)
    \/ \E h \in Workers, outcome \in RepoOutcomes : GetProductFind(h, outcome)
    \/ \E h \in Workers : GetProductStore(h)
    \/ \E h \in Workers, q \in ListQueries : Quiet /\ ListProductsLookup(h, q)
    \/ \E h \in Workers, outcome \in RepoOutcomes : ListProductsFind(h, outcome)
    \/ \E h \in Workers : ListProductsStore(h)
    \/ \E h \in Workers, id \in Ids, outcome \in WriteOutcomes :
         Quiet /\ CreateProductWrite(h, id, outcome)
    \/ \E h \in Workers, id \in Ids, outcome \in WriteOutcomes :
         Quiet /\ UpdateProductWrite(h, id, outcome)
    \/ \E h \in Workers, id \in Ids, outcome \in RepoOutcomes :
         Quiet /\ DeleteProductWrite(h, id, outcome)
    \/ \E h \in Workers : InvalidateDelete(h)
    \/ \E h \in Workers : InvalidateDeleteByPrefix(h)
    \/ \E h \in Workers : WriteRespond(h)

SpecSerial == InitService /\ [][SerialNext]_vars

\* ----------------------------------------------- properties of the handlers
\* What a GetProduct / ListProducts starting now would answer from the cache.
CachedProduct(id) == GetValueResult(items, now, ProductKey(id))
CachedList(q) == GetValueResult(items, now, ListKey(q))

\* C8: once a successful UpdateProduct or DeleteProduct of id has returned
\* and no request is in flight any more, a request starting now is not
\* answered with the data from before the write: a cached product:<id> is the
\* stored, undeleted document and every cached listing is the listing of the
\* store, whatever reads were in flight while the write executed.
C8_CacheReflectsWrites ==
    \A h \in Procs :
        (/\ Quiet
         /\ ret[h].op \in {"UpdateProduct", "DeleteProduct"}
         /\ ret[h].status = 200) =>
            /\ CachedProduct(ret[h].id).found =>
                  /\ Visible(db, ret[h].id)
                  /\ CachedProduct(ret[h].id).value = Product(ret[h].id, db[ret[h].id].ver)
            /\ \A q \in ListQueries :
                  CachedList(q).found => CachedList(q).value = FindAll(db, q)

\* The write of the request has reached the store.
Written(c) ==
    /\ c.id \in DOMAIN db
    /\ c.op = "UpdateProduct" => db[c.id].ver > 0
    /\ c.op = "DeleteProduct" => db[c.id].is_deleted

\* C9: with no concurrent request, a write handler invalidates after its
\* repository write succeeded and before it answers: when the response is
\* sent the cache holds no key starting with "products:list:" and, for
\* UpdateProduct and DeleteProduct of id, no entry "product:<id>".
C9_InvalidatedAtResponse ==
    \A h \in Procs :
        /\ pc[h] \in {"Delete", "DeleteByPrefix", "respond"} => Written(call[h])
        /\ pc[h] = "respond" =>
              /\ \A k \in DOMAIN items : ~StartsWith(k, ListPrefix)
              /\ call[h].op \in {"UpdateProduct", "DeleteProduct"} =>
                    ProductKey(call[h].id) \notin DOMAIN items
              /\ \A q \in ListQueries : ~CachedList(q).found

\* A GetProduct of "1" was answered 200, leaving product:1 cached; now an
\* UpdateProduct of "1" is about to answer and the entry is gone.
C9_Witness ==
    /\ ret["g2"] = [op |-> "GetProduct", id |-> "1", status |-> 200]
    /\ pc["g1"] = "respond"
    /\ call["g1"] = [op |-> "UpdateProduct", id |-> "1"]
    /\ "product:1" \notin DOMAIN items
    /\ db["1"].ver = 1

\* ------------------------------------------- Marshal and Unmarshal in use
\* One goroutine writes and another reads one key while the clock runs and
\* the sweeper ticks.  The writer stores encoded values with Marshal, whose
\* value may be a string, a Product or a channel, and with Set a typed string,
\* bytes that are no JSON text, and an entry with a negative TTL.  The reader
\* decodes into a string or into a Product, and calls GetValue and Size.
Writer == "g1"
Reader == "g2"
CodecKeys == {"product:1"}
Corrupt == Bytes("{")
NegativeTTL == -1
MarshalValues == {"v1", Chan} \cup ProductValues
CodecTTLArgs == {<<>>, <<TwoMinutes>>}
CodecSets ==
    {[op |-> "Set", key |-> k, value |-> v, ttl |-> <<>>] :
        k \in CodecKeys, v \in {"v1", Corrupt}}
      \cup {[op |-> "Set", key |-> k, value |-> "v2", ttl |-> <<NegativeTTL>>] : k \in CodecKeys}
CodecReads ==
    {[op |-> "Unmarshal", key |-> k, shape |-> x] : k \in CodecKeys, x \in Shapes}
      \cup {[op |-> "GetValue", key |-> k] : k \in CodecKeys}
      \cup {[op |-> "Size"]}

CodecNext ==
    \/ Tick
    \/ SweepTick
    \/ SweepPending
    \/ SweepAcquire
    \/ SweepScan
    \/ \E c \in CodecSets : LockCall(Writer, c)
    \/ \E k \in CodecKeys, v \in MarshalValues, a \in CodecTTLArgs : MarshalCall(Writer, k, v, a)
    \/ \E c \in CodecReads : RLockCall(Reader, c)
    \/ LockPending(Writer)
    \/ LockAcquire(Writer)
    \/ RLockAcquire(Reader)
    \/ SetBody(Writer)
    \/ MarshalEncode(Writer)
    \/ MarshalSet(Writer)
    \/ UnmarshalGetValue(Reader)
    \/ UnmarshalDecode(Reader)
    \/ GetValueBody(Reader)
    \/ SizeBody(Reader)

SpecCodec == Init /\ [][CodecNext]_vars


\* The steps of Marshal and Unmarshal.
MarshalEncodes(p) == pc[p] = "Marshal" /\ pc'[p] # "Marshal"
MarshalStores(p) == pc[p] = "Marshal.Set" /\ pc'[p] = "idle"
UnmarshalReads(p) == pc[p] = "Unmarshal.GetValue" /\ pc'[p] # "Unmarshal.GetValue"
UnmarshalDecodes(p) == pc[p] = "Unmarshal.decode" /\ pc'[p] = "idle"
\* The TTL a call asks for, the default one if it names none.
AskedTTL(c) == IF c.ttl = <<>> THEN ttl ELSE c.ttl[1]

\* C22: a Marshal whose value cannot be encoded returns the error at once
\* and leaves the map as it is, the entry under its key included; a Marshal
\* whose value can be encoded changes nothing while it encodes, then stores
\* the encoded bytes under its key with the TTL it was given, or the default
\* one, changes no other entry and returns nil.
C22_MarshalFailureStoresNothing ==
    [][\A p \in Procs :
         /\ MarshalEncodes(p) =>
              /\ items' = items
              /\ lastWrite' = lastWrite
              /\ IF call[p].value = Chan
                 THEN /\ pc'[p] = "idle"
                      /\ ret'[p] = [op |-> "Marshal", key |-> call[p].key,
                                    value |-> Chan, err |-> TRUE]
                 ELSE /\ pc'[p] = "Lock"
                      /\ IsBytes(call'[p].data)
                      /\ call'[p].key = call[p].key
                      /\ call'[p].ttl = call[p].ttl
         /\ MarshalStores(p) =>
              /\ DOMAIN items' = DOMAIN items \cup {call[p].key}
              /\ items'[call[p].key] = CacheItem(call[p].data, now + AskedTTL(call[p]))
              /\ \A k \in DOMAIN items \ {call[p].key} : items'[k] = items[k]
              /\ ret'[p] = [op |-> "Marshal", key |-> call[p].key,
                            value |-> call[p].value, err |-> FALSE]]_vars

\* Marshal of a channel has returned its error, and the typed value that Set
\* stored under the key before is still there with its expiration.
C22_Witness ==
    /\ ret[Writer] = [op |-> "Marshal", key |-> "product:1", value |-> Chan, err |-> TRUE]
    /\ "product:1" \in DOMAIN items
    /\ items["product:1"] = lastWrite["product:1"]
    /\ items["product:1"].Value = "v1"

\* C23: an Unmarshal whose key is absent, expired, or holds a value that is
\* not a []byte returns found = false without an error, writes nothing to
\* the target and leaves the map as it is.
C23_UnmarshalSilentMiss ==
    [][\A p \in Procs : UnmarshalReads(p) =>
         LET k == call[p].key
         IN (\/ k \notin DOMAIN items
             \/ IsExpired(now, items[k])
             \/ ~IsBytes(items[k].Value)) =>
               /\ pc'[p] = "idle"
               /\ ret'[p] = [op |-> "Unmarshal", key |-> k, found |-> FALSE,
                             err |-> FALSE, target |-> Nil]
               /\ items' = items]_vars

\* Unmarshal has returned a miss without an error on a key that holds a
\* typed value, not expired, stored with Set.
C23_Witness ==
    /\ ret[Reader] = [op |-> "Unmarshal", key |-> "product:1", found |-> FALSE,
                      err |-> FALSE, target |-> Nil]
    /\ "product:1" \in DOMAIN items
    /\ items["product:1"].Value = "v1"
    /\ now <= items["product:1"].Expiration

\* Bytes that are the encoding of no value of the shape.
Undecodable(data, shape) ==
    \A v \in MarshalValues \ {Chan} : ShapeOf(v) = shape => JSONMarshal(v).data # data

\* C24: an Unmarshal that finds a []byte entry, not expired, goes on to
\* decode those bytes; when they cannot be decoded into the target it returns
\* found = false with an error; neither step changes the map.
C24_UnmarshalDecodeError ==
    [][\A p \in Procs :
         /\ UnmarshalReads(p) =>
              LET k == call[p].key
              IN (k \in DOMAIN items /\ ~IsExpired(now, items[k]) /\ IsBytes(items[k].Value)) =>
                    /\ pc'[p] = "Unmarshal.decode"
                    /\ call'[p].data = items[k].Value
                    /\ call'[p].shape = call[p].shape
                    /\ items' = items
         /\ (UnmarshalDecodes(p) /\ Undecodable(call[p].data, call[p].shape)) =>
              /\ ~ret'[p].found
              /\ ret'[p].err
              /\ items' = items]_vars

\* Unmarshal has returned an error on the bytes of a Product read into a
\* string, and the entry is still in the map.
C24_Witness ==
    /\ ret[Reader].op = "Unmarshal"
    /\ ret[Reader].err
    /\ ~ret[Reader].found
    /\ "product:1" \in DOMAIN items
    /\ items["product:1"] = lastWrite["product:1"]
    /\ items["product:1"].Value \in {Corrupt, Bytes(ProductJSON("A"))}
    /\ now <= items["product:1"].Expiration

\* The entry under the key of the reader's call is the one the last Marshal
\* of the writer stored: the writer has made no call since, the sweeper has
\* not removed it, and the target has the shape of the value.
ReadsMarshalled(p) ==
    /\ ret[Writer].op = "Marshal"
    /\ ~ret[Writer].err
    /\ ret[Writer].key = call[p].key
    /\ call[p].shape = ShapeOf(ret[Writer].value)
\* The value with the zero value in the fields the encoding leaves out.
EncodedFields(v) == IF v \in ProductValues THEN ProductValue(SKU(v), FALSE) ELSE v
\* The round trip of Marshal(k, v) and Unmarshal(k, target) returning r(v).
RoundTrip(r(_)) ==
    \A p \in Procs :
       /\ (UnmarshalReads(p) /\ ReadsMarshalled(p)
             /\ call[p].key \in DOMAIN items
             /\ items[call[p].key] = lastWrite[call[p].key]
             /\ ~IsExpired(now, items[call[p].key])) =>
            /\ pc'[p] = "Unmarshal.decode"
            /\ call'[p].data = JSONMarshal(ret[Writer].value).data
       /\ (UnmarshalDecodes(p) /\ ReadsMarshalled(p)
             /\ call[p].data = JSONMarshal(ret[Writer].value).data) =>
            ret'[p] = [op |-> "Unmarshal", key |-> call[p].key, found |-> TRUE,
                       err |-> FALSE, target |-> r(ret[Writer].value)]

C26_NegativeTTLStoresExpiredEntry ==
    /\ [][\A p \in Procs :
            /\ (SetReturns(p) /\ call[p].ttl = <<NegativeTTL>>) =>
                 /\ call[p].key \in DOMAIN items'
                 /\ items'[call[p].key] = CacheItem(call[p].value, now + NegativeTTL)
                 /\ IsExpired(now', items'[call[p].key])
                 /\ ret'[p] = [op |-> "Set", key |-> call[p].key, value |-> call[p].value]
            /\ SizeReturns(p) => ret'[p].n = Cardinality(DOMAIN items)
            /\ (GetValueReturns(p) /\ call[p].key \in DOMAIN items
                  /\ items[call[p].key].Value = "v2") => Returned(p) = Miss]_vars
    /\ [][SweepReturns => \A k \in DOMAIN items : items[k].Value = "v2" => k \notin DOMAIN items']_vars
    /\ [](\A k \in DOMAIN items : items[k].Value = "v2" => IsExpired(now, items[k]))

\* A Set with a negative TTL has just stored its entry and the GetValue of
\* its key, at the same instant, has missed.
C26_Witness ==
    /\ "product:1" \in DOMAIN items
    /\ items["product:1"] = CacheItem("v2", now + NegativeTTL)
    /\ ret[Writer] = [op |-> "Set", key |-> "product:1", value |-> "v2"]
    /\ ret[Reader] = [op |-> "GetValue", key |-> "product:1", value |-> Nil, found |-> FALSE]

\* --------------------------------- the read handlers and their fallback
\* The read handlers with the bodies of their answers.  Every cached value is
\* written as text here: GetProduct caches the product itself, the
\* ListProducts that goes through Marshal and Unmarshal caches the JSON text
\* of its response.
IdSeq == <<"1", "2">>
ProductText(p) == "Product{" \o p.id \o "," \o Itoa(p.ver) \o "}"
RECURSIVE ProductsText(_, _)
ProductsText(ids, data) ==
    IF ids = <<>> THEN ""
    ELSE (IF \E p \in data : p.id = Head(ids)
          THEN ProductText(CHOOSE p \in data : p.id = Head(ids))
          ELSE "")
           \o ProductsText(Tail(ids), data)
\* CachedResponse{Products, Total, Page, PageSize} of the repository's answer
CachedResponse(r) ==
    "{products:[" \o ProductsText(IdSeq, r.data) \o "],total:" \o Itoa(r.total)
        \o ",page:" \o Itoa(r.page) \o ",page_size:" \o Itoa(r.page_size) \o "}"
\* A response holding a value json.Marshal refuses (an attribute that is no
\* JSON number).
Unsupported(text) == Chan \o text
\* fmt.Sprintf("products:list:%d:%d:%s:%s:%s:%v", ...)
ListKeyColons(q) ==
    "products:list:" \o Itoa(q.page) \o ":" \o Itoa(q.pageSize) \o ":" \o q.category
        \o ":" \o q.sortBy \o ":" \o q.sortOrder \o ":" \o FormatBool(q.summary)

\* c.JSON(status, body)
Answer(h, op, id, status, body) ==
    Leave(h, [op |-> op, id |-> id, status |-> status, body |-> body])

\* GetProduct: h.cache.GetValue(cacheKey); a hit is answered from the cache
GetProductGetValue(h, id) ==
    /\ pc[h] = "idle"
    /\ CanRLock
    /\ LET r == GetValueResult(items, now, ProductKey(id))
       IN IF r.found
          THEN Answer(h, "GetProduct", id, 200, r.value)
          ELSE Enter(h, "GetProduct.FindByID", [op |-> "GetProduct", id |-> id])
    /\ UNCHANGED <<now, db>>
    /\ UNCHANGED cacheVars
    /\ UNCHANGED onceVars

\* GetProduct: h.repo.FindByID and the answers to its errors
GetProductFindByID(h, outcome) ==
    /\ pc[h] = "GetProduct.FindByID"
    /\ LET id == call[h].id
       IN IF outcome = "error"
          THEN Answer(h, "GetProduct", id, 500, Nil)
          ELSE IF ~Visible(db, id)
          THEN Answer(h, "GetProduct", id, 404, Nil)
          ELSE Goto(h, "GetProduct.Set",
                    [op |-> "GetProduct", id |-> id,
                     product |-> ProductText(Product(id, db[id].ver))])
    /\ UNCHANGED <<now, db>>
    /\ UNCHANGED cacheVars
    /\ UNCHANGED onceVars

\* GetProduct: h.cache.Set(cacheKey, product, 5*time.Minute) and the answer
GetProductSet(h) ==
    /\ pc[h] = "GetProduct.Set"
    /\ CacheSet(ProductKey(call[h].id), call[h].product, FiveMinutes)
    /\ Answer(h, "GetProduct", call[h].id, 200, call[h].product)
    /\ UNCHANGED <<now, db, ttl, muW, muR, sweeper>>
    /\ UNCHANGED onceVars

\* A ListProducts that answers 500 when the cached bytes cannot be decoded.
ListProductsUnmarshalFailing(h, q) ==
    /\ pc[h] = "idle"
    /\ CanRLock
    /\ LET r == GetValueResult(items, now, ListKeyColons(q))
       IN IF r.found /\ IsBytes(r.value)
          THEN IF JSONUnmarshal(r.value, "string").err
               THEN Answer(h, "ListProducts", Itoa(q.page), 500, Nil)
               ELSE Answer(h, "ListProducts", Itoa(q.page), 200,
                           JSONUnmarshal(r.value, "string").value)
          ELSE Enter(h, "ListProducts.FindAll", [op |-> "ListProducts", q |-> q])
    /\ UNCHANGED <<now, db>>
    /\ UNCHANGED cacheVars
    /\ UNCHANGED onceVars

\* ListProducts: found, err := h.cache.Unmarshal(cacheKey, &response); with
\* err == nil && found the decoded response is the answer
ListProductsUnmarshal(h, q) ==
    /\ pc[h] = "idle"
    /\ CanRLock
    /\ LET r == GetValueResult(items, now, ListKeyColons(q))
       IN IF r.found /\ IsBytes(r.value) /\ ~JSONUnmarshal(r.value, "string").err
          THEN Answer(h, "ListProducts", Itoa(q.page), 200,
                      JSONUnmarshal(r.value, "string").value)
          ELSE Enter(h, "ListProducts.FindAll", [op |-> "ListProducts", q |-> q])
    /\ UNCHANGED <<now, db>>
    /\ UNCHANGED cacheVars
    /\ UNCHANGED onceVars

\* ListProducts: h.repo.FindAll and the response built from its answer, which
\* may hold a value that has no JSON form
ListProductsFindAll(h, outcome, supported) ==
    /\ pc[h] = "ListProducts.FindAll"
    /\ LET q == call[h].q
           response == CachedResponse(FindAll(db, q))
       IN IF outcome = "error"
          THEN Answer(h, "ListProducts", Itoa(q.page), 500, Nil)
          ELSE Goto(h, "ListProducts.Marshal",
                    [op |-> "ListProducts", q |-> q,
                     response |-> IF supported THEN response ELSE Unsupported(response)])
    /\ UNCHANGED <<now, db>>
    /\ UNCHANGED cacheVars
    /\ UNCHANGED onceVars

\* ListProducts: h.cache.Marshal(cacheKey, response, 2*time.Minute), whose
\* error is dropped, and the answer
ListProductsMarshal(h) ==
    /\ pc[h] = "ListProducts.Marshal"
    /\ LET e == JSONMarshal(call[h].response)
       IN IF e.err
          THEN items' = items /\ lastWrite' = lastWrite
          ELSE CacheSet(ListKeyColons(call[h].q), e.data, TwoMinutes)
    /\ Answer(h, "ListProducts", Itoa(call[h].q.page), 200, call[h].response)
    /\ UNCHANGED <<now, db, ttl, muW, muR, sweeper>>
    /\ UNCHANGED onceVars

\* The keys of the read handlers, and what another user of the cache stores
\* under them: a typed value under the key of product "1", a typed value or
\* bytes that are no JSON text under the key of the listing.
FallbackQueries == RaceQueries
FallbackKeys ==
    {ProductKey(id) : id \in Ids} \cup {ListKeyColons(q) : q \in FallbackQueries}
ForeignSets ==
    {[key |-> ProductKey("1"), value |-> "v1"]}
      \cup {[key |-> ListKeyColons(q), value |-> v] : q \in FallbackQueries, v \in {"v1", Corrupt}}

InitFallback ==
    /\ now = 0
    /\ items = EmptyMap
    /\ ttl = FiveMinutes
    /\ muW = NoProc
    /\ muR = {}
    /\ pc = [p \in Procs |-> "idle"]
    /\ call = [p \in Procs |-> NoCall]
    /\ ret = [p \in Procs |-> NoRet]
    /\ sweeper = "Idle"
    /\ lastWrite = [k \in FallbackKeys |-> NoItem]
    /\ Instance = 1
    /\ onceDone = TRUE
    /\ onceM = NoProc
    /\ created = 1
    /\ started = 1
    /\ db = [i \in {"1"} |-> Document(0, FALSE)]

\* g1 handles the reads, g2 the updates of product "1", g3 stores foreign
\* values; the clock runs and the sweeper ticks.
FallbackNext ==
    \/ Tick
    \/ SweepLock
    \/ SweepScan
    \/ \E id \in Ids : GetProductGetValue("g1", id)
    \/ \E outcome \in RepoOutcomes : GetProductFindByID("g1", outcome)
    \/ GetProductSet("g1")
    \/ \E q \in FallbackQueries : ListProductsUnmarshal("g1", q)
    \/ \E outcome \in RepoOutcomes, supported \in BOOLEAN :
         ListProductsFindAll("g1", outcome, supported)
    \/ ListProductsMarshal("g1")
    \/ UpdateProductWrite("g2", "1", "ok")
    \/ InvalidateDelete("g2")
    \/ InvalidateDeleteByPrefix("g2")
    \/ WriteRespond("g2")
    \/ \E c \in ForeignSets : SetLock("g3", c.key, c.value, <<0>>)
    \/ SetBody("g3")

SpecFallback == InitFallback /\ [][FallbackNext]_vars


\* C27: a read handler answers from the cache only when the entry of its key
\* is there, not expired and, for the ListProducts that decodes, a []byte
\* that is the encoding of the answer.  Every other lookup goes to the
\* repository; the handler then answers 500 on its error, 404 when FindByID
\* finds no undeleted document, and otherwise 200 with what the repository
\* returned, whether or not the result could be stored: a response that
\* Marshal cannot encode is answered all the same and the map is unchanged.
C27_CacheIsOnlyAnOptimisation ==
    [][LET h == "g1"
       IN /\ (pc[h] = "idle" /\ pc'[h] = "idle" /\ ret'[h] # ret[h]) =>
               /\ ret'[h].status = 200
               /\ ret'[h].op = "GetProduct" =>
                    LET k == ProductKey(ret'[h].id)
                    IN /\ k \in DOMAIN items
                       /\ ~IsExpired(now, items[k])
                       /\ ret'[h].body = items[k].Value
               /\ ret'[h].op = "ListProducts" =>
                    \E q \in FallbackQueries :
                       LET k == ListKeyColons(q)
                       IN /\ Itoa(q.page) = ret'[h].id
                          /\ k \in DOMAIN items
                          /\ ~IsExpired(now, items[k])
                          /\ IsBytes(items[k].Value)
                          /\ items[k].Value = JSONMarshal(ret'[h].body).data
          /\ (pc[h] = "idle" /\ pc'[h] # "idle") =>
               pc'[h] \in {"GetProduct.FindByID", "ListProducts.FindAll"}
          /\ pc[h] = "GetProduct.FindByID" =>
               LET id == call[h].id
               IN \/ pc'[h] = "GetProduct.FindByID"
                  \/ pc'[h] = "idle" /\ ret'[h].status = 500
                  \/ pc'[h] = "idle" /\ ret'[h].status = 404 /\ ~Visible(db, id)
                  \/ /\ pc'[h] = "GetProduct.Set"
                     /\ Visible(db, id)
                     /\ call'[h].product = ProductText(Product(id, db[id].ver))
          /\ pc[h] = "ListProducts.FindAll" =>
               \/ pc'[h] = "ListProducts.FindAll"
               \/ pc'[h] = "idle" /\ ret'[h].status = 500
               \/ /\ pc'[h] = "ListProducts.Marshal"
                  /\ call'[h].response \in
                       {CachedResponse(FindAll(db, call[h].q)),
                        Unsupported(CachedResponse(FindAll(db, call[h].q)))}
          /\ (pc[h] = "GetProduct.Set" /\ pc'[h] = "idle") =>
               ret'[h] = [op |-> "GetProduct", id |-> call[h].id, status |-> 200,
                          body |-> call[h].product]
          /\ (pc[h] = "ListProducts.Marshal" /\ pc'[h] = "idle") =>
               /\ ret'[h] = [op |-> "ListProducts", id |-> Itoa(call[h].q.page),
                             status |-> 200, body |-> call[h].response]
               /\ HasPrefix(call[h].response, Chan) => items' = items]_vars

\* ListProducts has answered 200 with the repository's listing, which
\* Marshal could not encode, and the bytes that are no JSON text are still
\* under its key, not expired.
C27_Witness ==
    /\ \E q \in FallbackQueries :
          /\ ret["g1"] = [op |-> "ListProducts", id |-> Itoa(q.page), status |-> 200,
                          body |-> Unsupported(CachedResponse(FindAll(db, q)))]
          /\ ListKeyColons(q) \in DOMAIN items
          /\ items[ListKeyColons(q)] = CacheItem(Corrupt, now)

\* Path parameters and query parameters a request may carry, the ones of the
\* runs and some chosen to look like a key of the other family.
AnyIds == Ids \cup {"", "s", "s:list:", "list:1", "products:list:"}
AnyQueries ==
    ListQueries
      \cup {[page |-> pg, pageSize |-> 0, category |-> cat, sortBy |-> "", sortOrder |-> "",
             summary |-> TRUE] : pg \in {-1, 0}, cat \in {"product:1", "products:list:"}}

\* C28: no key "product:<id>" starts with "products:list:" and every key of
\* a listing does, so the DeleteByPrefix("products:list:") of a write handler
\* removes every cached listing and leaves every cached product as it was.
C28_KeyFamiliesDisjoint ==
    [][\A h \in Procs : (pc[h] = "DeleteByPrefix" /\ pc'[h] = "respond") =>
         /\ \A id \in AnyIds : ~HasPrefix(ProductKey(id), ListPrefix)
         /\ \A q \in AnyQueries :
               HasPrefix(ListKey(q), ListPrefix) /\ HasPrefix(ListKeyColons(q), ListPrefix)
         /\ \A id \in AnyIds, q \in AnyQueries :
               ProductKey(id) # ListKey(q) /\ ProductKey(id) # ListKeyColons(q)
         /\ \A q \in ListQueries : ListKey(q) \notin DOMAIN items'
         /\ \A id \in Ids :
               ProductKey(id) \in DOMAIN items =>
                  /\ ProductKey(id) \in DOMAIN items'
                  /\ items'[ProductKey(id)] = items[ProductKey(id)]]_vars

\* A listing was answered and cached, product "1" is cached, and the
\* CreateProduct that is about to answer has removed the listing alone.
C28_Witness ==
    /\ pc["g1"] = "respond"
    /\ call["g1"].op = "CreateProduct"
    /\ ret["g2"] = [op |-> "ListProducts", id |-> "1", status |-> 200]
    /\ ProductKey("1") \in DOMAIN items
    /\ items[ProductKey("1")] = lastWrite[ProductKey("1")]
    /\ \A q \in ListQueries : ListKey(q) \notin DOMAIN items

\* ------------------------------------- the handlers on the collection
\* The handlers that query the MongoDB collection themselves.  A filter is a
\* bson.M: a function from its keys to the clauses of which a document has to
\* satisfy one ("$or" holds several, every other key one).
Put(m, key, v) == [k \in DOMAIN m \cup {key} |-> IF k = key THEN v ELSE m[k]]
Eq(field, arg) == [field |-> field, op |-> "eq", arg |-> arg]
Exists(field, arg) == [field |-> field, op |-> "exists", arg |-> arg]
Regex(field, q) == [field |-> field, op |-> "regex", arg |-> q]
Range(field, gte, lte) == [field |-> field, op |-> "range", gte |-> gte, lte |-> lte]
\* A document satisfies a clause.  The texts of the documents here match a
\* pattern only when they are equal to it; a bound of 0 is no bound.
Holds(doc, c) ==
    CASE c.op = "eq" -> c.field \in DOMAIN doc /\ doc[c.field] = c.arg
      [] c.op = "exists" -> (c.field \in DOMAIN doc) = c.arg
      [] c.op = "regex" -> c.field \in DOMAIN doc /\ doc[c.field] = c.arg
      [] c.op = "range" ->
            /\ c.gte > 0 => doc[c.field] >= c.gte
            /\ c.lte > 0 => doc[c.field] <= c.lte
Matches(doc, filter) == \A key \in DOMAIN filter : \E c \in filter[key] : Holds(doc, c)
\* h.Collection.Find(ctx, filter, opts), as the ids of the documents found
Find(d, filter) == {id \in DOMAIN d : Matches(d[id], filter)}

\* The $or of the text search
TextSearch(q) == {Regex("name", q), Regex("description", q), Regex("category", q)}
\* The keys every version adds for category, active and the prices
CommonFilter(filter, query) ==
    LET f1 == IF query.category # "" THEN Put(filter, "category", {Eq("category", query.category)})
              ELSE filter
        f2 == IF query.active # ""
              THEN Put(f1, "is_active", {Eq("is_active", query.active = "true")})
              ELSE f1
    IN IF query.min_price > 0 \/ query.max_price > 0
       THEN Put(f2, "price_cents", {Range("price_cents", query.min_price, query.max_price)})
       ELSE f2

\* buildFilter: filter := bson.M{"is_deleted": false}, then the parameters
buildFilter(query) ==
    LET f0 == [k \in {"is_deleted"} |-> {Eq("is_deleted", FALSE)}]
        f1 == IF query.q # "" THEN Put(f0, "$or", TextSearch(query.q)) ELSE f0
    IN CommonFilter(f1, query)

\* GetProducts with its filter built in place: filter := bson.M{"$or": [is_deleted
\* missing, is_deleted false]}, then the parameters, the text search under
\* the same key "$or"
inlineFilter(query) ==
    LET f0 == [k \in {"$or"} |-> {Exists("is_deleted", FALSE), Eq("is_deleted", FALSE)}]
        f1 == IF query.q # "" THEN Put(f0, "$or", TextSearch(query.q)) ELSE f0
    IN CommonFilter(f1, query)

\* The names that sort before a name.
Before(name) == IF name = "tv" THEN {"pc"} ELSE {}

\* The int of the handlers, narrowed to 16 bits.
MaxInt == 32767
MinInt == -32768
Wrap(n) == LET m == n % 65536 IN IF m > MaxInt THEN m - 65536 ELSE m
IsDigit(c) == \E n \in 0..9 : Digit(n) = c
DigitValue(c) == CHOOSE n \in 0..9 : Digit(n) = c
\* The digits of s read from the left on top of acc: -1 when a character is
\* no digit, MaxInt + 1 when the number is out of range.
RECURSIVE ParseDigits(_, _)
ParseDigits(s, acc) ==
    IF Len(s) = 0 THEN acc
    ELSE IF ~IsDigit(SubSeq(s, 1, 1)) THEN -1
    ELSE LET v == acc * 10 + DigitValue(SubSeq(s, 1, 1))
             rest == IF Len(s) = 1 THEN "" ELSE SubSeq(s, 2, Len(s))
         IN ParseDigits(rest, IF v > MaxInt THEN MaxInt + 1 ELSE v)
\* n, _ := strconv.Atoi(s): 0 on a syntax error, the nearest int out of range
Atoi(s) ==
    LET signed == Len(s) > 0 /\ SubSeq(s, 1, 1) \in {"+", "-"}
        digits == IF ~signed THEN s ELSE IF Len(s) = 1 THEN "" ELSE SubSeq(s, 2, Len(s))
        u == IF Len(digits) = 0 THEN -1 ELSE ParseDigits(digits, 0)
    IN IF u = -1 THEN 0
       ELSE IF signed /\ SubSeq(s, 1, 1) = "-"
       THEN (IF u > MaxInt THEN MinInt ELSE -u)
       ELSE (IF u > MaxInt THEN MaxInt ELSE u)
\* c.DefaultQuery(key, defaultValue): the parameter if the request has it
DefaultQuery(params, key, defaultValue) ==
    IF key \in DOMAIN params THEN params[key] ELSE defaultValue

defaultPage == 1
defaultPageSize == 10

\* Pagination checked from below only.
getPaginationParamsUnbounded(params) ==
    LET page == Atoi(DefaultQuery(params, "page", Itoa(defaultPage)))
        pageSize == Atoi(DefaultQuery(params, "page_size", Itoa(defaultPageSize)))
    IN [page |-> IF page < 1 THEN defaultPage ELSE page,
        pageSize |-> IF pageSize < 1 THEN defaultPageSize ELSE pageSize]
\* getPaginationParams
getPaginationParams(params) ==
    LET page == Atoi(DefaultQuery(params, "page", Itoa(defaultPage)))
        pageSize == Atoi(DefaultQuery(params, "page_size", Itoa(defaultPageSize)))
    IN [page |-> IF page < 1 THEN defaultPage ELSE page,
        pageSize |-> IF pageSize < 1 \/ pageSize > 100 THEN defaultPageSize ELSE pageSize]

\* The place of a found document under the default sort, name ascending.
Position(d, found, id) == Cardinality({j \in found : d[j].name \in Before(d[id].name)})
\* Find with SetSkip(skip) and SetLimit(limit): a limit of 0 is no limit and
\* a negative limit is its absolute value; the caller sees no negative skip
\* here, the driver refuses it.
FindPage(d, filter, skip, limit) ==
    LET found == Find(d, filter)
        n == IF limit < 0 THEN -limit ELSE limit
    IN {id \in found :
          /\ Position(d, found, id) >= skip
          /\ n # 0 => Position(d, found, id) < skip + n}

\* The documents of the collection and the requests of the runs.
CatalogDocument(name, category, active, price, deleted) ==
    [name |-> name, description |-> "", category |-> category, is_active |-> active,
     price_cents |-> price, is_deleted |-> deleted]
CatalogIds == {"1", "2", "3"}
CatalogQueries ==
    [q : {"", "tv"}, category : {"", "tech"}, active : {"", "true", "false"},
     min_price : {0, 5}, max_price : {0, 5}]
NoFilter == [q |-> "", category |-> "", active |-> "", min_price |-> 0, max_price |-> 0]
\* The texts of page and page_size: no number, zero, negative, in range, at
\* and above the bound, signed, out of the range of int.
PageTexts == {"", "abc", "0", "-1", "1", "2", "100", "101", "+5", "99999", "-99999"}
NoParams == [k \in {} |-> ""]
Pagings ==
    {NoParams}
      \cup {[k \in {"page"} |-> t] : t \in PageTexts}
      \cup {[k \in {"page_size"} |-> t] : t \in PageTexts}
      \cup {[k \in {"page", "page_size"} |-> IF k = "page" THEN t ELSE u] :
               t \in {"abc", "2", "99999"}, u \in PageTexts}
\* A request filters or pages.
CatalogRequests ==
    {[query |-> query, paging |-> NoParams] : query \in CatalogQueries}
      \cup {[query |-> NoFilter, paging |-> paging] : paging \in Pagings}

InitCatalog ==
    /\ now = 0
    /\ items = EmptyMap
    /\ ttl = FiveMinutes
    /\ muW = NoProc
    /\ muR = {}
    /\ pc = [p \in Procs |-> "idle"]
    /\ call = [p \in Procs |-> NoCall]
    /\ ret = [p \in Procs |-> NoRet]
    /\ sweeper = "Idle"
    /\ lastWrite = [k \in Keys |-> NoItem]
    /\ Instance = 1
    /\ onceDone = TRUE
    /\ onceM = NoProc
    /\ created = 1
    /\ started = 1
    /\ db = [i \in {"1", "2"} |->
               IF i = "1" THEN CatalogDocument("tv", "tech", TRUE, 5, FALSE)
               ELSE CatalogDocument("pc", "tv", FALSE, 9, FALSE)]

\* GET /v1/products: GetProducts with buildFilter and getPaginationParams
GetProducts(h, query, paging) ==
    /\ pc[h] = "idle"
    /\ LET p == getPaginationParams(paging)
           skip == Wrap((p.page - 1) * p.pageSize)
       IN IF skip < 0
          THEN Leave(h, [op |-> "GetProducts", query |-> query, paging |-> paging,
                         status |-> 500, page |-> p.page, page_size |-> p.pageSize,
                         products |-> {}])
          ELSE Leave(h, [op |-> "GetProducts", query |-> query, paging |-> paging,
                         status |-> 200, page |-> p.page, page_size |-> p.pageSize,
                         products |-> FindPage(db, buildFilter(query), skip, p.pageSize)])
    /\ UNCHANGED <<now, db>>
    /\ UNCHANGED cacheVars
    /\ UNCHANGED onceVars

\* GET /v1/products: GetProducts with the filter built in place and page and
\* page_size as strconv.Atoi returns them
GetProductsInline(h, query, paging) ==
    /\ pc[h] = "idle"
    /\ LET page == Atoi(DefaultQuery(paging, "page", "1"))
           pageSize == Atoi(DefaultQuery(paging, "page_size", "10"))
           skip == Wrap((page - 1) * pageSize)
       IN IF skip < 0
          THEN Leave(h, [op |-> "GetProductsInline", query |-> query, paging |-> paging,
                         status |-> 500, page |-> page, page_size |-> pageSize,
                         products |-> {}])
          ELSE Leave(h, [op |-> "GetProductsInline", query |-> query, paging |-> paging,
                         status |-> 200, page |-> page, page_size |-> pageSize,
                         products |-> FindPage(db, inlineFilter(query), skip, pageSize)])
    /\ UNCHANGED <<now, db>>
    /\ UNCHANGED cacheVars
    /\ UNCHANGED onceVars

\* GET /v1/products/:id: FindOne on {"_id": objID, "is_deleted": false}
GetProductByID(h, id) ==
    /\ pc[h] = "idle"
    /\ LET found == Find(db, [k \in {"is_deleted"} |-> {Eq("is_deleted", FALSE)}]) \cap {id}
       IN Leave(h, [op |-> "GetProductByID", id |-> id,
                    status |-> IF found = {} THEN 404 ELSE 200, products |-> found])
    /\ UNCHANGED <<now, db>>
    /\ UNCHANGED cacheVars
    /\ UNCHANGED onceVars

\* DELETE /v1/products/:id: UpdateOne on {"_id": objID} sets is_deleted
DeleteProduct(h, id) ==
    /\ pc[h] = "idle"
    /\ IF id \in DOMAIN db
       THEN /\ db' = [db EXCEPT ![id] = [db[id] EXCEPT !.is_deleted = TRUE]]
            /\ Leave(h, [op |-> "DeleteProduct", id |-> id, status |-> 200])
       ELSE /\ db' = db
            /\ Leave(h, [op |-> "DeleteProduct", id |-> id, status |-> 404])
    /\ UNCHANGED now
    /\ UNCHANGED cacheVars
    /\ UNCHANGED onceVars

\* One request after the other, each handled in one step.
CatalogNext ==
    \/ \E r \in CatalogRequests : GetProducts("g1", r.query, r.paging)
    \/ \E r \in CatalogRequests : GetProductsInline("g1", r.query, r.paging)
    \/ \E id \in CatalogIds : GetProductByID("g1", id)
    \/ \E id \in CatalogIds : DeleteProduct("g1", id)

SpecCatalog == InitCatalog /\ [][CatalogNext]_vars

\* C29: a DELETE that succeeds leaves the document in the collection with
\* is_deleted = true, and no GET answers with a product whose is_deleted is
\* true at the time of the query, whatever the query parameters.
C29_SoftDeletedExcluded ==
    [][\A h \in Workers :
         (ret'[h].op # ret[h].op \/ db' # db \/ ret'[h] # ret[h]) =>
            /\ (ret'[h].op = "DeleteProduct" /\ ret'[h].status = 200) =>
                  /\ ret'[h].id \in DOMAIN db'
                  /\ db'[ret'[h].id].is_deleted
                  /\ DOMAIN db' = DOMAIN db
            /\ ret'[h].op \in {"GetProducts", "GetProductsInline", "GetProductByID"} =>
                  \A id \in ret'[h].products : ~db[id].is_deleted]_vars

\* The number a text of the runs stands for when it is the decimal form of
\* an int, as the pairs of the text and the number.
Numerals ==
    {<<"0", 0>>, <<"-1", -1>>, <<"1", 1>>, <<"2", 2>>, <<"100", 100>>, <<"101", 101>>,
     <<"+5", 5>>, <<"99999", MaxInt>>, <<"-99999", MinInt>>}
\* The number asked for under a key, 0 when the text is no number.
Asked(params, key, default) ==
    IF key \notin DOMAIN params THEN default
    ELSE IF \E n \in Numerals : n[1] = params[key]
    THEN (CHOOSE n \in Numerals : n[1] = params[key])[2]
    ELSE 0

\* C30: whatever the texts of page and page_size, the page GetProducts
\* works with is at least 1 and its page size is between 1 and 100: each is
\* the number asked for when that is in range (a page of 1 or more, a size of
\* 1 to 100) and otherwise the default, page 1 and size 10.
C30_PaginationInRange ==
    \A h \in Workers :
        ret[h].op = "GetProducts" =>
            LET page == Asked(ret[h].paging, "page", 1)
                size == Asked(ret[h].paging, "page_size", 10)
            IN /\ ret[h].page >= 1
               /\ ret[h].page_size >= 1
               /\ ret[h].page_size <= 100
               /\ ret[h].page = IF page >= 1 THEN page ELSE 1
               /\ ret[h].page_size = IF size >= 1 /\ size <= 100 THEN size ELSE 10

\* GetProducts has answered a request for page "abc" with a page size of
\* "101" with the first page of ten.
C30_Witness ==
    /\ ret["g1"].op = "GetProducts"
    /\ ret["g1"].paging = [k \in {"page", "page_size"} |-> IF k = "page" THEN "abc" ELSE "101"]
    /\ ret["g1"].status = 200
    /\ ret["g1"].page = 1
    /\ ret["g1"].page_size = 10

\* ---------------------------------------------------------------------------
\* PATCH /v1/products/:id
\* ---------------------------------------------------------------------------

\* A document as the collection stores it: CatalogDocument with its _id and
\* its timestamps. A body and a document are maps from field names to values.
StoredDocument(id, name, deleted) ==
    Put(Put(Put(CatalogDocument(name, "tech", TRUE, 5, deleted), "_id", id),
            "created_at", 0), "updated_at", 0)
Without(m, key) == [k \in DOMAIN m \ {key} |-> m[k]]
protectedFields == <<"_id", "id", "created_at", "is_deleted">>
RECURSIVE DeleteFields(_, _)
DeleteFields(update, fields) ==
    IF fields = <<>> THEN update
    ELSE DeleteFields(Without(update, Head(fields)), Tail(fields))
sanitizeUpdateKeepingDeleted(update) ==
    DeleteFields(update, <<"_id", "id", "created_at">>)
sanitizeUpdate(update) == DeleteFields(update, protectedFields)
\* UpdateOne with {"$set": update}: every field of update is written, a field
\* the document does not have is added.
SetFields(doc, update) ==
    [k \in DOMAIN doc \cup DOMAIN update |-> IF k \in DOMAIN update THEN update[k] ELSE doc[k]]
\* parseObjectID: the ids of the runs stand for hex ids, "x" is not one.
UpdateIds == CatalogIds \cup {"x"}
parseObjectID(id) == [objID |-> id, err |-> id \notin CatalogIds]
\* The bodies of the runs: a field a user may set, each protected field, all
\* of them together, and a body that is not JSON.
Body(name, ids, createdAt, deleted) ==
    LET b1 == IF name THEN Put(NoParams, "name", "hd") ELSE NoParams
        b2 == IF ids THEN Put(Put(b1, "_id", "3"), "id", "3") ELSE b1
        b3 == IF createdAt THEN Put(b2, "created_at", 9) ELSE b2
    IN IF deleted = <<>> THEN b3 ELSE Put(b3, "is_deleted", deleted[1])
Bodies ==
    {Body(FALSE, FALSE, FALSE, <<>>), Body(TRUE, FALSE, FALSE, <<>>),
     Body(FALSE, TRUE, FALSE, <<>>), Body(FALSE, FALSE, TRUE, <<>>)}
      \cup {Body(name, name, name, <<d>>) : name, d \in BOOLEAN}
UpdateRequests ==
    {[valid |-> TRUE, body |-> b] : b \in Bodies} \cup {[valid |-> FALSE, body |-> NoParams]}

InitUpdate ==
    /\ now = 0
    /\ items = EmptyMap
    /\ ttl = FiveMinutes
    /\ muW = NoProc
    /\ muR = {}
    /\ pc = [p \in Procs |-> "idle"]
    /\ call = [p \in Procs |-> NoCall]
    /\ ret = [p \in Procs |-> NoRet]
    /\ sweeper = "Idle"
    /\ lastWrite = [k \in Keys |-> NoItem]
    /\ Instance = 1
    /\ onceDone = TRUE
    /\ onceM = NoProc
    /\ created = 1
    /\ started = 1
    /\ db = [i \in {"1", "2"} |-> StoredDocument(i, IF i = "1" THEN "tv" ELSE "pc", FALSE)]

\* PATCH /v1/products/:id: UpdateProduct. outcome is what UpdateOne answers.
UpdateProduct(h, id, request, outcome) ==
    /\ pc[h] = "idle"
    /\ LET parsed == parseObjectID(id)
           update == Put(sanitizeUpdate(request.body), "updated_at", now)
           matched == Find(db, [k \in {"is_deleted"} |-> {Eq("is_deleted", FALSE)}])
                        \cap {parsed.objID}
           answer(status) == [op |-> "UpdateProduct", id |-> id, valid |-> request.valid,
                              body |-> request.body, status |-> status]
       IN CASE parsed.err \/ ~request.valid ->
                 /\ db' = db
                 /\ Leave(h, answer(400))
            [] ~parsed.err /\ request.valid /\ outcome = "error" ->
                 /\ db' = db
                 /\ Leave(h, answer(500))
            [] ~parsed.err /\ request.valid /\ outcome = "ok" /\ matched = {} ->
                 /\ db' = db
                 /\ Leave(h, answer(404))
            [] ~parsed.err /\ request.valid /\ outcome = "ok" /\ matched # {} ->
                 /\ db' = [db EXCEPT ![id] = SetFields(db[id], update)]
                 /\ Leave(h, answer(200))
    /\ UNCHANGED now
    /\ UNCHANGED cacheVars
    /\ UNCHANGED onceVars

UpdateNext ==
    \/ Tick
    \/ \E id \in UpdateIds, r \in UpdateRequests, o \in {"ok", "error"} :
          UpdateProduct("g1", id, r, o)
    \/ \E id \in CatalogIds : DeleteProduct("g1", id)
    \/ \E id \in CatalogIds : GetProductByID("g1", id)

SpecUpdate == InitUpdate /\ [][UpdateNext]_vars

\* The value a document has for a field, and whether it has the field at all.
Field(doc, f) == IF f \in DOMAIN doc THEN <<doc[f]>> ELSE <<>>

LifetimeWrites ==
    {[op |-> "Set", key |-> "product:1", value |-> "v1", ttl |-> <<0>>], [op |-> "Clear"]}
LifetimeReads == {[op |-> "Size"]}

\* The process from its start: the workers call Init, and, once the Cache
\* exists, store, clear and count; the clock runs and the ticker ticks.
LifetimeNext ==
    \/ Tick
    \/ SweepTick
    \/ SweepPending
    \/ SweepAcquire
    \/ SweepScan
    \/ \E p \in Workers : InitCall(p, FiveMinutes)
    \/ \E p \in Workers : OnceSkip(p)
    \/ \E p \in Workers : OnceEnter(p)
    \/ \E p \in Workers : OnceNew(p)
    \/ \E p \in Workers : OnceGo(p)
    \/ \E p \in Workers : InitReturn(p)
    \/ onceDone /\ \E p \in Workers, c \in LifetimeWrites : LockCall(p, c)
    \/ onceDone /\ \E p \in Workers, c \in LifetimeReads : RLockCall(p, c)
    \/ \E p \in Workers : LockPending(p)
    \/ \E p \in Workers : LockAcquire(p)
    \/ \E p \in Workers : RLockAcquire(p)
    \/ \E p \in Workers : SetBody(p)
    \/ \E p \in Workers : ClearBody(p)
    \/ \E p \in Workers : SizeBody(p)

SpecLifetime == InitNoCache /\ [][LifetimeNext]_vars /\ LiveFairness

\* The steps of the sweeper: started by the go statement of Init, then from
\* Idle through the wait for the lock to Scanning and back to Idle.
SweeperSteps ==
    {<<"none", "Idle">>, <<"Idle", "Waiting">>, <<"Waiting", "Locking">>,
     <<"Locking", "Scanning">>, <<"Scanning", "Idle">>}

\* C32: the sweeper starts when Init creates the Cache, and from then on it
\* only moves Idle -> (waiting for the lock) -> Scanning -> Idle: every tick
\* it receives leads to one scan, made with the exclusive lock held, and to a
\* return to Idle with the lock released; no step, of Clear or any other call,
\* takes it out of this loop, and it waits in Idle for the next tick for ever.
C32_SweeperLoopsForLifetime ==
    /\ [][/\ sweeper' # sweeper => <<sweeper, sweeper'>> \in SweeperSteps
          /\ (sweeper = "none" /\ sweeper' = "Idle") <=> started' = started + 1
          /\ started' # started => created' = 1 /\ Instance' = 1
          /\ (sweeper = "Scanning" /\ sweeper' = "Idle") => muW = "sweeper" /\ muW' = NoProc
          /\ (\E p \in Workers : ClearBody(p)) => sweeper' = sweeper]_vars
    /\ [](sweeper = "Scanning" <=> muW = "sweeper")
    /\ [](sweeper = "none" <=> started = 0)
    /\ [](started <= 1)
    /\ (sweeper = "Waiting") ~> (sweeper = "Scanning")
    /\ (sweeper = "Scanning") ~> (sweeper = "Idle")
    /\ (sweeper = "Idle") ~> (sweeper = "Waiting")

\* The sweeper scans, started by the one Init that created the Cache, after
\* a Clear replaced the map, while a worker waits for the lock.
C32_Witness ==
    /\ sweeper = "Scanning"
    /\ muW = "sweeper"
    /\ started = 1
    /\ created = 1
    /\ \E p \in Workers : ret[p].op = "Clear"
    /\ \E p \in Workers : pc[p] \in {"Lock", "Lock.readers"}

\* ---------------------------------------------------------------------------
\* Encoding and decoding outside the lock
\* ---------------------------------------------------------------------------

\* Worker p holds the lock of the cache, exclusive or shared.
HoldsLock(p) == muW = p \/ p \in muR
\* Worker p is at json.Marshal in Marshal, or at json.Unmarshal in Unmarshal.
Serializing(p) == pc[p] \in {"Marshal", "Unmarshal.decode"}

\* C33: no goroutine encodes or decodes while it holds the lock of the cache:
\* Marshal encodes before the Lock of its Set is even asked for, Unmarshal
\* decodes after the RUnlock of its GetValue, and the encoding and decoding
\* steps neither touch the lock nor the map.
C33_NoSerializationUnderLock ==
    /\ [](\A p \in {Writer, Reader} : Serializing(p) => ~HoldsLock(p))
    /\ [][\A p \in {Writer, Reader} :
            (MarshalEncode(p) \/ UnmarshalDecode(p)) =>
               /\ ~HoldsLock(p)
               /\ UNCHANGED <<items, muW, muR>>
               /\ pc'[p] \in {"Lock", "idle"}]_vars

\* Operations did interleave between the decoding and the map access: the
\* reader is about to decode bytes it read under the shared lock, the writer
\* has encoded another value and holds the exclusive lock to store it, and
\* the entry the reader read is no longer the one in the map.
C33_Witness ==
    /\ pc[Reader] = "Unmarshal.decode"
    /\ pc[Writer] = "Marshal.Set"
    /\ muW = Writer
    /\ call[Writer].data # call[Reader].data
    /\ call[Reader].key \in DOMAIN items => items[call[Reader].key].Value # call[Reader].data

\* ---------------------------------------------------------------------------
\* Entries live until they expire
\* ---------------------------------------------------------------------------

\* The entry the last Set stored under k is still owed to the readers at time
\* t: no Delete, DeleteByPrefix or Clear removed it, and t is before its
\* expiration.
Owed(k, t) == lastWrite[k] # NoItem /\ t < lastWrite[k].Expiration

\* C34: from the Set that stored it and at every time strictly before its
\* expiration, an entry that no Delete, matching DeleteByPrefix, Clear or
\* later Set has replaced is in the map as stored and every GetValue of its
\* key returns its value with found = true, whatever the sweeper and the
\* calls on other keys did in between; a scan of the sweeper removes only
\* entries whose expiration is past.
C34_NoPrematureEviction ==
    /\ [](\A k \in RaceKeys : Owed(k, now) =>
            /\ k \in DOMAIN items
            /\ items[k] = lastWrite[k]
            /\ GetValueResult(items, now, k) = [value |-> lastWrite[k].Value, found |-> TRUE])
    /\ [][\A p \in Workers : (GetValueReturns(p) /\ Owed(call[p].key, now)) =>
            Returned(p) = [value |-> lastWrite[call[p].key].Value, found |-> TRUE]]_vars
    /\ [][\A p \in Workers : SetReturns(p) =>
            lastWrite'[call[p].key] = CacheItem(call[p].value, now + Duration(ttl, call[p].ttl))]_vars
    /\ [][SweepReturns =>
            \A k \in DOMAIN items :
               IF now > items[k].Expiration THEN k \notin DOMAIN items'
               ELSE k \in DOMAIN items' /\ items'[k] = items[k]]_vars

\* An entry stored at time 0 for 2 instants is read at time 1, after a scan
\* of the sweeper that removed the expired entry of the other key.
C34_Witness ==
    /\ now = 1
    /\ ret["g1"].op = "GetValue"
    /\ ret["g1"].key = "product:1"
    /\ ret["g1"].found
    /\ ret["g1"].value = lastWrite["product:1"].Value
    /\ lastWrite["product:1"].Expiration = 2
    /\ lastWrite["list:a"] # NoItem
    /\ lastWrite["list:a"].Expiration = 0
    /\ "list:a" \notin DOMAIN items

\* ---------------------------------------------------------------------------
\* What a call leaves alone
\* ---------------------------------------------------------------------------

\* The entry under k, if there is one.
Entry(m, k) == IF k \in DOMAIN m THEN <<m[k]>> ELSE <<>>

\* C35: a Set or a Delete of key k leaves the entry of every other key as it
\* was, there or not; and an entry that is in the map before and after a step
\* has the same value and the same expiration unless the step is the Set of
\* its key: no read, no scan and no call on another key refreshes it.
C35_SingleKeyFrame ==
    /\ [][\A p \in Workers : (SetReturns(p) \/ DeleteReturns(p)) =>
            \A k \in Keys \ {call[p].key} : Entry(items', k) = Entry(items, k)]_vars
    /\ [][\A k \in DOMAIN items \cap DOMAIN items' :
            items'[k] # items[k] => \E p \in Workers : SetReturns(p) /\ call[p].key = k]_vars
    /\ [][\A p \in Workers : (GetValueReturns(p) \/ SizeReturns(p)) => items' = items]_vars

\* One worker's last call was the Delete of one key; the other worker has
\* then read the other key at time 1 and got the entry stored for 2 instants
\* at time 0, which is in the map as it was stored.
C35_Witness ==
    /\ now = 1
    /\ ret["g1"].op = "Delete"
    /\ ret["g1"].key = "product:1"
    /\ "product:1" \notin DOMAIN items
    /\ ret["g2"].op = "GetValue"
    /\ ret["g2"].key = "list:a"
    /\ ret["g2"].found
    /\ "list:a" \in DOMAIN items
    /\ items["list:a"] = CacheItem(ret["g2"].value, 2)
    /\ items["list:a"] = lastWrite["list:a"]

\* ---------------------------------------------------------------------------
\* Expired stays expired
\* ---------------------------------------------------------------------------

\* A GetValue of k at this instant would miss.
Hidden(k) == ~GetValueResult(items, now, k).found
\* This step stores an entry under k: the body of a Set, or of the Set inside
\* a Marshal.
Stores(k) == \E p \in Procs : (SetReturns(p) \/ MarshalStores(p)) /\ call[p].key = k

\* C36: with a clock that does not go backwards, a key whose entry has
\* expired stays hidden: no step but the Set or Marshal of that key makes a
\* GetValue of it hit again, and as long as it is hidden every GetValue
\* returns found = false and every Unmarshal returns (false, nil) without
\* decoding.
C36_ExpiryIsPermanent ==
    /\ [][\A k \in CodecKeys :
            (Hidden(k) /\ ~Stores(k)) => ~GetValueResult(items', now', k).found]_vars
    /\ [][(GetValueReturns(Reader) /\ Hidden(call[Reader].key)) =>
            Returned(Reader) = Miss]_vars
    /\ [][(UnmarshalReads(Reader) /\ Hidden(call[Reader].key)) =>
            /\ pc'[Reader] = "idle"
            /\ ~ret'[Reader].found
            /\ ~ret'[Reader].err]_vars

\* The entry of the last Marshal has expired and is still in the map, and the
\* Unmarshal of its key has just returned found = false.
C36_Witness ==
    /\ ret[Reader].op = "Unmarshal"
    /\ ~ret[Reader].found
    /\ ~ret[Reader].err
    /\ ret[Reader].key \in DOMAIN items
    /\ IsBytes(items[ret[Reader].key].Value)
    /\ IsExpired(now, items[ret[Reader].key])
    /\ items[ret[Reader].key] = lastWrite[ret[Reader].key]
    /\ ret[Writer].op = "Marshal"
    /\ ~ret[Writer].err

\* ---------------------------------------------------------------------------
\* Clear and the sweeper
\* ---------------------------------------------------------------------------

\* C37: the sweeper scans the map the Cache has at the time of the scan.
\* After a Clear the map holds only entries stored by the Sets that came
\* after it; a scan, before or after a Clear and however the two wait for
\* each other's lock, only removes entries and puts none back; and an entry
\* stored after a Clear that has expired is in the end removed by a scan.
C37_ClearKeepsSweeper ==
    /\ [](\A k \in DOMAIN items : items[k] = lastWrite[k])
    /\ [][\A p \in Workers : ClearReturns(p) =>
            /\ items' = EmptyMap
            /\ sweeper' = sweeper]_vars
    /\ [][SweepReturns =>
            /\ \A k \in DOMAIN items' : k \in DOMAIN items /\ items'[k] = items[k]
            /\ \A k \in DOMAIN items : k \in DOMAIN items' <=> ~IsExpired(now, items[k])]_vars
    /\ \A k \in {"product:1"} :
          (k \in DOMAIN items /\ IsExpired(now, items[k]))
             ~> (k \notin DOMAIN items \/ ~IsExpired(now, items[k]))

\* One worker's Clear has returned and the other's Set after it; the entry of
\* that Set, expired at time 1, has been removed by a scan: the map is empty
\* though no Delete or Clear followed the Set.
C37_Witness ==
    /\ ret["g1"].op = "Clear"
    /\ ret["g2"].op = "Set"
    /\ lastWrite["product:1"] = CacheItem("v1", 0)
    /\ now >= 1
    /\ items = EmptyMap
    /\ sweeper = "Idle"
    /\ started = 1

\* ---------------------------------------------------------------------------
\* Failed requests and the cache
\* ---------------------------------------------------------------------------

\* Handler h sends its response in this step.
Answers(h) == pc'[h] = "idle" /\ (pc[h] # "idle" \/ ret'[h] # ret[h])
\* The points of a handler after which it calls the cache to write.
CacheWritePoints == {"Delete", "DeleteByPrefix", "GetProduct.Set", "ListProducts.Set"}

\* The repository read of a GetProduct or ListProducts that fails or finds
\* nothing is followed by no Set.
C38_NothingFoundNothingStored ==
    [][\A h \in Workers :
         /\ (pc[h] = "GetProduct.FindByID" /\ pc'[h] = "GetProduct.Set") =>
               Visible(db, call[h].id)
         /\ (pc[h] = "ListProducts.FindAll" /\ pc'[h] = "ListProducts.Set") =>
               FindAll(db, call[h].q).data # {}]_vars

\* C38: a request that is answered with an error (400, 404, 500) has made no
\* call that writes the cache: the invalidations of CreateProduct,
\* UpdateProduct and DeleteProduct start only once the repository write has
\* changed the collection, the Set of GetProduct only once FindByID has
\* returned a product and the Set of ListProducts only once FindAll has
\* returned without error, and each of these requests is answered 200 or
\* 201. The cache never holds anything but products and listings. A listing
\* with no product in it is a successful result and is stored like any other.
C38_FailuresLeaveCacheUntouched ==
    /\ [][\A h \in Workers :
            /\ (Answers(h) /\ ret'[h].status \notin {200, 201}) =>
                  /\ pc[h] \notin CacheWritePoints \cup {"respond"}
                  /\ items' = items
                  /\ db' = db
            /\ (pc[h] \in CacheWritePoints \cup {"respond"} /\ Answers(h)) =>
                  ret'[h].status \in {200, 201}
            /\ (pc[h] = "idle" /\ pc'[h] \in {"Delete", "DeleteByPrefix"}) => db' # db
            /\ (pc[h] = "GetProduct.FindByID" /\ pc'[h] = "GetProduct.Set") =>
                  Visible(db, call[h].id)
            /\ (pc[h] = "ListProducts.FindAll" /\ pc'[h] = "ListProducts.Set") =>
                  call'[h].response = FindAll(db, call[h].q)
            /\ (pc[h] = "ListProducts.Set" /\ pc'[h] = "idle") =>
                  items'[ListKey(call[h].q)] = CacheItem(call[h].response, now + TwoMinutes)]_vars
    /\ [][items' # items => \E h \in Workers : pc[h] \in CacheWritePoints]_vars
    /\ [](\A k \in DOMAIN items :
            DOMAIN items[k].Value \in
               {{"id", "ver"}, {"data", "total", "page", "page_size", "total_pages"}})

\* An UpdateProduct of a soft-deleted product has been answered 404 and the
\* cache still holds what an earlier ListProducts stored: a listing with no
\* product in it.
C38_Witness ==
    /\ ret["g1"].op = "UpdateProduct"
    /\ ret["g1"].status = 404
    /\ ret["g1"].id = "1"
    /\ \E q \in ListQueries :
          /\ ListKey(q) \in DOMAIN items
          /\ items[ListKey(q)].Value.data = {}
          /\ items[ListKey(q)].Value.total = 0
    /\ Quiet

\* ---------------------------------------------------------------------------
\* The empty prefix
\* ---------------------------------------------------------------------------

\* What a caller can observe of the cache: the number Size returns and what
\* GetValue returns for each key at each time.
Observable(m) ==
    [size |-> Cardinality(DOMAIN m),
     reads |-> [k \in Keys |-> [t \in 0..MaxTime |-> GetValueResult(m, t, k)]]]

\* C39: every key, the empty one included, starts with the empty prefix, so
\* DeleteByPrefix("") removes every entry: what it leaves is what Clear
\* leaves, a map of size 0 in which every GetValue misses, with the default
\* TTL and the sweeper as they were.
C39_EmptyPrefixIsClear ==
    [][\A p \in Procs : (DeleteByPrefixReturns(p) /\ call[p].prefix = "") =>
          /\ \A k \in Keys \cup {""} : HasPrefix(k, "")
          /\ items' = EmptyMap
          /\ Observable(items') = Observable(EmptyMap)
          /\ Observable(items').size = 0
          /\ \A k \in Keys : \A t \in 0..MaxTime : Observable(items').reads[k][t] = Miss
          /\ lastWrite' = [k \in DOMAIN lastWrite |-> NoItem]
          /\ ttl' = ttl /\ sweeper' = sweeper /\ muW' = NoProc]_vars

\* One worker's Set of "list:a" has returned and then the other worker's
\* DeleteByPrefix(""): the map is empty and the entry of the Set is gone.
C39_Witness ==
    /\ ret["g1"].op = "DeleteByPrefix"
    /\ ret["g1"].prefix = ""
    /\ ret["g2"].op = "Set"
    /\ ret["g2"].key = "list:a"
    /\ lastWrite["list:a"] = NoItem
    /\ items = EmptyMap
    /\ now = 0
====
